---- MODULE Spec2Model ----
(***************************************************************************)
(* Model of the VSCode MCP task extension: the TaskProvider (execution     *)
(* tracker: taskExecutions / executionResults maps, the three registry     *)
(* event handlers, executeTask with its 100 ms poll loop and its 5 minute  *)
(* timeout timer) and the MCPTools facade on top of it.                    *)
(*                                                                         *)
(* The registry (vscode.tasks) is the environment: it owns the task list   *)
(* and the runs, and it delivers start / end / process-exit events at      *)
(* arbitrary later moments.  Everything runs on one JavaScript thread, so  *)
(* every handler, every timer callback and every stretch of an async       *)
(* function between two awaits is one atomic step.                         *)
(*                                                                         *)
(* Further parts: the Logger's in-memory history, the HTTP MCPServer with  *)
(* the extension commands that start and stop it, and the WebSocket        *)
(* MCPServer with its client sockets and JSON-RPC messages.                *)
(***************************************************************************)
EXTENDS Integers, Sequences, FiniteSets, TLC

\* ------------------------------------------------------------------ bounds
MaxTasks == 2       \* longest enumerated task list (lookup specification)
MaxRuns  == 2       \* runs the registry starts in one behaviour
MaxCalls == 2       \* tool calls in one behaviour
MaxToolCalls == 1   \* tool calls in one behaviour of the facade specifications
MaxLen   == 2       \* longest filter string of list_tasks
MaxLogCalls    == 1002  \* calls of Logger.log in one behaviour
MaxCommands    == 2     \* extension commands invoked in one behaviour
MaxServerCalls == 1     \* start()/stop() calls made on an MCPServer directly
MaxSockets     == 1     \* client sockets of the WebSocket server
MaxWsCalls     == 3     \* start()/stop() calls on the WebSocket server
MaxMessages    == 2     \* messages received by the WebSocket server

\* ------------------------------------------------------------- value sets
Names   == {"build", "test"}
Sources == {"npm", "grunt"}
Scopes  == {"workspace"}
NoName   == ""      \* args.taskName missing: undefined or the empty string
NoSource == ""      \* args.source missing
ExitCodes == {0, 1}
Undefined == -1     \* the JavaScript value undefined in an exitCode slot

Descriptor == [name : Names, source : Sources, scope : Scopes]
EventCodes == ExitCodes \cup {Undefined}

CallIds == 1..MaxCalls
SocketIds == 1..MaxSockets
ToolCallIds == 1..MaxToolCalls

RECURSIVE SeqsUpTo(_, _)
SeqsUpTo(S, n) ==
    IF n = 0 THEN {<<>>}
    ELSE LET shorter == SeqsUpTo(S, n - 1)
         IN  shorter \cup {Append(s, x) : s \in {t \in shorter : Len(t) = n - 1}, x \in S}

TaskLists == SeqsUpTo(Descriptor, MaxTasks)

\* Text that list_tasks searches is a sequence of characters; "A" is the one
\* upper-case letter, "a" its lower-case form.
Chars     == {"a", "A", "n", "o"}
NoFilter  == <<>>   \* args.filter missing, or the empty string
Filters   == SeqsUpTo(Chars, MaxLen)
NoGroup   == <<>>   \* task.group undefined
GroupNone == <<"n", "o", "n", "e">>     \* the string 'none'

ListDescriptor ==
    [name   : {<<"A", "n">>, <<"o">>},
     source : {<<"a">>, <<"n", "A">>},
     group  : {NoGroup, <<"A", "a">>},
     scope  : Scopes]

ListTaskLists == SeqsUpTo(ListDescriptor, MaxTasks)

\* The task list of the tracker specification: one ambiguous name, two keys.
WorkspaceTasks ==
    << [name |-> "build", source |-> "npm",   scope |-> "workspace"],
       [name |-> "build", source |-> "grunt", scope |-> "workspace"] >>

\* The task list of the facade specification: a second name before the
\* ambiguous one.
ToolTasks ==
    << [name |-> "test",  source |-> "npm",   scope |-> "workspace"],
       [name |-> "build", source |-> "npm",   scope |-> "workspace"],
       [name |-> "build", source |-> "grunt", scope |-> "workspace"] >>

VARIABLES
    tasks,              \* vscode.tasks.fetchTasks(): the enumerated list
    runs,               \* vscode.tasks: every run the registry has started
    taskExecutions,     \* TaskProvider.taskExecutions (Map, insertion order)
    executionResults,   \* TaskProvider.executionResults (Map)
    calls,              \* the tool calls made so far, with their timers
    consumed,           \* keys whose latest end-event result a poll has taken
    logs,               \* Logger.logs: the in-memory history
    logCalls,           \* history: how often Logger.log has been called
    servers,            \* every MCPServer (HTTP) constructed: isRunning, httpServer
    listeners,          \* every http.Server created by MCPServer.start
    serverCalls,        \* the start() and stop() calls made on MCPServer objects
    mcpServer,          \* extension.ts: let mcpServer (0: undefined)
    commands,           \* the extension commands invoked so far
    wsServer,           \* MCPServer (WebSocket): this.server
    clients,            \* MCPServer (WebSocket): this.clients
    sockets,            \* readyState of every client socket
    wsCalls,            \* the start() and stop() calls made on the WebSocket server
    messages,           \* the messages received from clients
    replies             \* the messages sent to clients

trackerVars == <<tasks, runs, taskExecutions, executionResults, calls, consumed>>
loggerVars  == <<logs, logCalls>>
serverVars  == <<servers, listeners, serverCalls, mcpServer, commands>>
socketVars  == <<wsServer, clients, sockets, wsCalls, messages, replies>>

vars == <<trackerVars, loggerVars, serverVars, socketVars>>

\* ------------------------------------------------------------ JS Map model
\* taskExecutions is a sequence of [key, run] entries in insertion order.
MapHas(m, k) == \E i \in 1..Len(m) : m[i].key = k

MapSet(m, k, v) ==
    IF MapHas(m, k)
    THEN [i \in 1..Len(m) |-> IF m[i].key = k THEN [key |-> k, run |-> v] ELSE m[i]]
    ELSE Append(m, [key |-> k, run |-> v])

\* Faulty variant: the entry stays.
MapDeleteNothing(m, k) == m

MapDelete(m, k) == SelectSeq(m, LAMBDA e : e.key # k)

\* Faulty variant: a value that is present already is kept.
ResultSetKeepFirst(m, k, v) ==
    [x \in (DOMAIN m) \cup {k} |-> IF x = k /\ k \notin DOMAIN m THEN v ELSE m[x]]

\* executionResults is a function whose domain is the set of keys present.
ResultSet(m, k, v) == [x \in (DOMAIN m) \cup {k} |-> IF x = k THEN v ELSE m[x]]

\* Faulty variant: the delete empties the whole map.
ResultDeleteAll(m, k) == [x \in {} |-> m[x]]

ResultDelete(m, k) == [x \in (DOMAIN m) \ {k} |-> m[x]]

\* ---------------------------------------------------------------- helpers
\* String(task.scope) inside the template literal: the TaskScope enum prints
\* its number, a WorkspaceFolder object prints "[object Object]".
ScopeKey(scope) ==
    IF scope = "global" THEN "1"
    ELSE IF scope = "workspace" THEN "2"
    ELSE "[object Object]"

\* `${task.source}-${task.name}-${task.scope}`
getTaskId(task) == <<task.source, task.name, ScopeKey(task.scope)>>

\* Faulty variant: the last matching index instead of the first.
FindIndexLast(hit) ==
    IF \E i \in 1..Len(hit) : hit[i]
    THEN CHOOSE i \in 1..Len(hit) : hit[i] /\ \A j \in (i + 1)..Len(hit) : ~hit[j]
    ELSE 0

\* Array.prototype.find as an index: hit[i] tells whether the predicate holds
\* of element i; the least such index, 0 for none.
FindIndex(hit) ==
    IF \E i \in 1..Len(hit) : hit[i]
    THEN CHOOSE i \in 1..Len(hit) : hit[i] /\ \A j \in 1..(i - 1) : ~hit[j]
    ELSE 0

\* executeTask: tasks.find(name) and, only when that found nothing and a
\* source was given, tasks.find(name && source).
ExecuteTaskLookup(ts, taskName, source) ==
    LET byName == FindIndex([i \in 1..Len(ts) |-> ts[i].name = taskName])
    IN  IF byName = 0 /\ source # NoSource
        THEN FindIndex([i \in 1..Len(ts) |->
                          ts[i].name = taskName /\ ts[i].source = source])
        ELSE byName

\* The TaskInfo literal of getAllTasks and of getRunningTasks:
\* group: task.group?.kind || 'none'
TaskInfo(task) ==
    [name |-> task.name, source |-> task.source,
     group |-> IF "group" \in DOMAIN task
               THEN (IF task.group # NoGroup THEN task.group ELSE GroupNone)
               ELSE GroupNone,
     scope |-> task.scope]

\* getAllTasks: tasks.map(task => TaskInfo), same length and order.
getAllTasks(ts) == [i \in 1..Len(ts) |-> TaskInfo(ts[i])]

\* Faulty variant: a given source takes part in the first find already, so
\* the lookup differs from the one of executeTask.
GetTaskDetailsLookupBySource(infos, taskName, source) ==
    FindIndex([i \in 1..Len(infos) |->
                 /\ infos[i].name = taskName
                 /\ (source # NoSource => infos[i].source = source)])

\* getTaskDetails: the same two finds, over the TaskInfo list.
GetTaskDetailsLookup(infos, taskName, source) ==
    LET byName == FindIndex([i \in 1..Len(infos) |-> infos[i].name = taskName])
    IN  IF byName = 0 /\ source # NoSource
        THEN FindIndex([i \in 1..Len(infos) |->
                          infos[i].name = taskName /\ infos[i].source = source])
        ELSE byName

\* Faulty variant: the list stops before the last task.
AvailableTasksButLast(ts) ==
    [i \in 1..(Len(ts) - 1) |-> <<ts[i].source, ts[i].name>>]

\* tasks.map(t => `${t.source}:${t.name}`).join(', ')
AvailableTasks(ts) == [i \in 1..Len(ts) |-> <<ts[i].source, ts[i].name>>]

\* ----------------------------------------------------- results and outcomes
\* onDidEndTask: { taskName, success: true, duration }; run is a history
\* field naming the run whose end event built the result.
ProvisionalResult(task, r) ==
    [taskName |-> task.name, success |-> TRUE, exitCode |-> Undefined, run |-> r]

\* Faulty variant: the exit code is stored, success is not recomputed.
PatchExitCodeKeepSuccess(result, code) ==
    [result EXCEPT !.exitCode = code]

\* onDidEndTaskProcess: result.exitCode = e.exitCode; success = exitCode === 0
PatchExitCode(result, code) ==
    [result EXCEPT !.exitCode = code, !.success = (code = 0)]

\* Faulty variant: the synthesized result reports a failure.
FallbackResultFailed(taskName) ==
    [taskName |-> taskName, success |-> FALSE, exitCode |-> Undefined, run |-> 0]

\* Faulty variant: without a buffered result the exit code is stored as a
\* result of its own.
PatchBufferedOrStore(results, taskId, code) ==
    IF taskId \in DOMAIN results
    THEN ResultSet(results, taskId, PatchExitCode(results[taskId], code))
    ELSE ResultSet(results, taskId,
                   [taskName |-> NoName, success |-> (code = 0), exitCode |-> code,
                    run |-> 0])

\* onDidEndTaskProcess: const result = executionResults.get(taskId);
\* if (result) { patch; set }, otherwise nothing
PatchBuffered(results, taskId, code) ==
    IF taskId \in DOMAIN results
    THEN ResultSet(results, taskId, PatchExitCode(results[taskId], code))
    ELSE results

\* The run whose result is buffered under taskId (0: no result is buffered).
Leftover(results, taskId) ==
    IF taskId \in DOMAIN results THEN results[taskId].run ELSE 0

\* checkCompletion's else branch: { taskName, success: true, duration }
FallbackResult(taskName) ==
    [taskName |-> taskName, success |-> TRUE, exitCode |-> Undefined, run |-> 0]

NoResult == [taskName |-> NoName, success |-> FALSE, exitCode |-> Undefined, run |-> -1]

\* Faulty variant: the error leaves executeTool as an exception.
ToolErrorRaised(tool, err) ==
    [kind |-> "raised", isError |-> FALSE, via |-> "raised", tool |-> tool, err |-> err]

\* MCPTools.executeTool's catch: "Error executing tool '<tool>': <message>"
ToolError(tool, err) ==
    [kind |-> "error", isError |-> TRUE, via |-> "catch", tool |-> tool, err |-> err]

\* TaskProvider.executeTask's catch: "Failed to execute task '<name>': <message>"
FailedToExecute(taskName, err) ==
    [msg |-> "Failed to execute task", taskName |-> taskName, cause |-> err]

\* Faulty variant: the Outcome never carries the error flag.
ExecuteOutcomeNoFlag(result) ==
    [kind |-> "executed", isError |-> FALSE, via |-> "return",
     tool |-> "execute_task", taskName |-> result.taskName,
     status |-> IF result.success THEN "SUCCESS" ELSE "FAILED",
     exitCodeText |-> IF result.exitCode # Undefined THEN <<result.exitCode>> ELSE <<>>]

\* MCPTools.executeTask: status text, exit code text, isError = !success
ExecuteOutcome(result) ==
    [kind |-> "executed", isError |-> ~result.success, via |-> "return",
     tool |-> "execute_task", taskName |-> result.taskName,
     status |-> IF result.success THEN "SUCCESS" ELSE "FAILED",
     exitCodeText |-> IF result.exitCode # Undefined THEN <<result.exitCode>> ELSE <<>>]

\* MCPTools.getTaskDetails: the rendered detail lines of the chosen TaskInfo
DetailsOutcome(info) ==
    [kind |-> "details", isError |-> FALSE, via |-> "return",
     tool |-> "get_task_details", title |-> info.name,
     sourceLine |-> info.source, scopeLine |-> info.scope]

\* Faulty variant: not found is raised, and executeTool's catch reports it.
DetailsNotFoundThrown(taskName) ==
    [kind |-> "error", isError |-> TRUE, via |-> "catch",
     tool |-> "get_task_details", err |-> [msg |-> "not found", taskName |-> taskName]]

\* MCPTools.getTaskDetails: "Task '<name>' not found."
DetailsNotFound(taskName) ==
    [kind |-> "notFound", isError |-> TRUE, via |-> "return",
     tool |-> "get_task_details", taskName |-> taskName]

\* ----------------------------------------------------------------- list_tasks
\* String.prototype.toLowerCase, letter by letter
ToLowerChar(ch) == IF ch = "A" THEN "a" ELSE ch

toLowerCase(s) == [i \in 1..Len(s) |-> ToLowerChar(s[i])]

\* String.prototype.includes: sub occurs in s at some offset
includes(s, sub) ==
    \E k \in 0..(Len(s) - Len(sub)) : SubSeq(s, k + 1, k + Len(sub)) = sub

\* The predicate of tasks.filter in listTasks; filter is lower-cased already.
ListMatches(info, filter) ==
    \/ includes(toLowerCase(info.name), filter)
    \/ includes(toLowerCase(info.source), filter)
    \/ (info.group # <<>> /\ includes(toLowerCase(info.group), filter))

\* Faulty variant: the filter is compared as it was given, not lower-cased.
ListFilterAsGiven(infos, argFilter) ==
    IF argFilter # NoFilter
    THEN SelectSeq(infos, LAMBDA t : ListMatches(t, argFilter))
    ELSE infos

\* listTasks: if (args.filter) { filter = args.filter.toLowerCase();
\* filteredTasks = tasks.filter(...) }, else every task.
ListFilter(infos, argFilter) ==
    IF argFilter # NoFilter
    THEN LET filter == toLowerCase(argFilter)
         IN  SelectSeq(infos, LAMBDA t : ListMatches(t, filter))
    ELSE infos

\* One bullet of the list: name, source, the group line unless the group is
\* 'none', the scope line.
ListItem(info) ==
    [name |-> info.name, source |-> info.source,
     groupInfo |-> IF info.group # GroupNone THEN <<info.group>> ELSE <<>>,
     scopeInfo |-> info.scope]

\* MCPTools.listTasks: `Found ${n} tasks[ matching filter '${f}']:` and the
\* bullets; the Outcome has no isError field.
ListOutcome(filteredTasks, argFilter) ==
    [kind |-> "list", isError |-> FALSE, via |-> "return", tool |-> "list_tasks",
     count |-> Len(filteredTasks),
     matching |-> IF argFilter # NoFilter THEN <<argFilter>> ELSE <<>>,
     items |-> [i \in 1..Len(filteredTasks) |-> ListItem(filteredTasks[i])]]

\* ------------------------------------------- get_running_tasks, terminate_task
\* vscode.tasks.taskExecutions holds a run from the moment the registry has
\* announced it (to this extension host or before it was listening) or has
\* started it for this process, until it ends.
IsExecuting(run) == ~run.ended /\ (run.started \/ run.call # 0)

\* The indices of the runs in vscode.tasks.taskExecutions, in order.
RegistryExecutions(rs) ==
    SelectSeq([r \in 1..Len(rs) |-> r], LAMBDA r : IsExecuting(rs[r]))

\* Faulty variant: only the executions this process has started.
getRunningTasksOwn(rs) ==
    LET own == SelectSeq(RegistryExecutions(rs), LAMBDA r : rs[r].call # 0)
    IN  [i \in 1..Len(own) |-> TaskInfo(rs[own[i]].task)]

\* TaskProvider.getRunningTasks: one TaskInfo per registry execution.
getRunningTasks(rs) ==
    LET executions == RegistryExecutions(rs)
    IN  [i \in 1..Len(executions) |-> TaskInfo(rs[executions[i]].task)]

\* MCPTools.getRunningTasks: 'No tasks are currently running.' or
\* `Currently running tasks (${n}):` and one bullet each; no isError field.
RunningOutcome(runningTasks) ==
    [kind |-> "running", isError |-> FALSE, via |-> "return",
     tool |-> "get_running_tasks",
     count |-> Len(runningTasks),
     text |-> IF Len(runningTasks) = 0 THEN "No tasks are currently running."
              ELSE "Currently running tasks",
     items |-> [i \in 1..Len(runningTasks) |->
                  [name |-> runningTasks[i].name, source |-> runningTasks[i].source]]]

\* Faulty variant: the last execution with the name.
TerminateTaskFindLast(execs, rs, taskName) ==
    FindIndexLast([i \in 1..Len(execs) |-> rs[execs[i].run].task.name = taskName])

\* terminateTask: Array.from(this.taskExecutions.values())
\*                  .find(exec => exec.task.name === taskName)
TerminateTaskFind(execs, rs, taskName) ==
    FindIndex([i \in 1..Len(execs) |-> rs[execs[i].run].task.name = taskName])

\* Faulty variant: the Outcome never carries the error flag.
TerminateOutcomeNoFlag(taskName, success) ==
    [kind |-> "terminated", isError |-> FALSE, via |-> "return",
     tool |-> "terminate_task", taskName |-> taskName, success |-> success]

\* MCPTools.terminateTask: "... has been terminated successfully." or
\* "Failed to terminate task ...", isError = !success
TerminateOutcome(taskName, success) ==
    [kind |-> "terminated", isError |-> ~success, via |-> "return",
     tool |-> "terminate_task", taskName |-> taskName, success |-> success]

\* TaskProvider.getAllTasks's catch: "Failed to fetch tasks: <message>"
FailedToFetch(err) == [msg |-> "Failed to fetch tasks", cause |-> err]

NoOutcome == [kind |-> "none", isError |-> FALSE, via |-> "none"]

\* ------------------------------------------------------------------- state
\* Faulty variant: the run is not attributed to the call that requested it.
NewRunUnowned(task, c) ==
    [task |-> task, call |-> 0, started |-> FALSE, ended |-> FALSE, exited |-> FALSE,
     exitCode |-> Undefined, terminations |-> 0]

\* A run of the registry: its task, the call that requested it (0: started
\* by the user or another extension), which of its events the registry has
\* fired so far, the exit code of its process-exit event, and how often
\* terminate() was called on its execution.
NewRun(task, c) ==
    [task |-> task, call |-> c, started |-> FALSE, ended |-> FALSE, exited |-> FALSE,
     exitCode |-> Undefined, terminations |-> 0]

\* A tool call that has not been made yet.  fetched tells whether the call
\* has invoked vscode.tasks.fetchTasks, registry how the registry answered;
\* stale is a history field: the run whose result was buffered under the key
\* of the call when the call asked for its own run (0: none was).
IdleCall ==
    [pc |-> "idle", tool |-> "none", taskName |-> NoName, source |-> NoSource,
     filter |-> NoFilter, fetched |-> FALSE, registry |-> "ok", taskId |-> <<>>,
     run |-> 0, stale |-> 0, pollTimer |-> FALSE, timeoutTimer |-> FALSE, polled |-> FALSE,
     result |-> NoResult, out |-> NoOutcome]

\* Logger constructor: this.logs = []
InitLogger == logs = <<>> /\ logCalls = 0

\* extension.ts before activation: no MCPServer has been constructed.
InitServers ==
    /\ servers = <<>>
    /\ listeners = <<>>
    /\ serverCalls = <<>>
    /\ mcpServer = 0
    /\ commands = <<>>

\* MCPServer (WebSocket) constructor: this.clients = new Set(), no server.
InitSockets ==
    /\ wsServer = "undefined"
    /\ clients = {}
    /\ sockets = [x \in SocketIds |-> "none"]
    /\ wsCalls = <<>>
    /\ messages = <<>>
    /\ replies = <<>>

InitTracker ==
    /\ InitLogger /\ InitServers /\ InitSockets
    /\ runs = <<>>
    /\ taskExecutions = <<>>
    /\ executionResults = [k \in {} |-> NoResult]
    /\ calls = [c \in CallIds |-> IdleCall]
    /\ consumed = {}

Init == tasks = WorkspaceTasks /\ InitTracker

InitLookup == tasks \in TaskLists /\ InitTracker

\* ---------------------------------------------------------- registry events
\* The user (or another extension) runs tasks[i] from the editor.
UserStartsTask(i) ==
    /\ i \in 1..Len(tasks)
    /\ Len(runs) < MaxRuns
    /\ runs' = Append(runs, NewRun(tasks[i], 0))
    /\ UNCHANGED <<tasks, taskExecutions, executionResults, calls, consumed>>
    /\ UNCHANGED <<loggerVars, serverVars, socketVars>>

\* vscode.tasks.onDidStartTask
OnDidStartTask(r) ==
    /\ r \in 1..Len(runs)
    /\ ~runs[r].started
    /\ runs' = [runs EXCEPT ![r].started = TRUE]
    /\ taskExecutions' = MapSet(taskExecutions, getTaskId(runs[r].task), r)
    /\ UNCHANGED <<tasks, executionResults, calls, consumed>>
    /\ UNCHANGED <<loggerVars, serverVars, socketVars>>

\* vscode.tasks.onDidEndTask
OnDidEndTask(r) ==
    /\ r \in 1..Len(runs)
    /\ runs[r].started /\ ~runs[r].ended
    /\ LET taskId == getTaskId(runs[r].task)
       IN  /\ executionResults' =
                 ResultSet(executionResults, taskId, ProvisionalResult(runs[r].task, r))
           /\ taskExecutions' = MapDelete(taskExecutions, taskId)
           /\ consumed' = consumed \ {taskId}
    /\ runs' = [runs EXCEPT ![r].ended = TRUE]
    /\ UNCHANGED <<tasks, calls>>
    /\ UNCHANGED <<loggerVars, serverVars, socketVars>>

\* vscode.tasks.onDidEndTaskProcess
OnDidEndTaskProcess(r, code) ==
    /\ r \in 1..Len(runs)
    /\ code \in EventCodes
    /\ runs[r].started /\ ~runs[r].exited
    /\ executionResults' =
          PatchBuffered(executionResults, getTaskId(runs[r].task), code)
    /\ runs' = [runs EXCEPT ![r].exited = TRUE, ![r].exitCode = code]
    /\ UNCHANGED <<tasks, taskExecutions, calls, consumed>>
    /\ UNCHANGED <<loggerVars, serverVars, socketVars>>

\* ------------------------------------------------------------- execute_task
\* MCPTools.executeTool('execute_task') -> MCPTools.executeTask ->
\* TaskProvider.executeTask, up to the creation of the promise and of its
\* two timers.
ExecuteTask(c, taskName, source) ==
    /\ c \in CallIds
    /\ calls[c].pc = "idle"
    /\ \A d \in 1..(c - 1) : calls[d].pc # "idle"
    /\ LET target == ExecuteTaskLookup(tasks, taskName, source)
           args   == [calls[c] EXCEPT !.tool = "execute_task",
                                      !.taskName = taskName, !.source = source,
                                      !.fetched = (taskName # NoName)]
       IN  IF taskName = NoName
           THEN \* if (!args.taskName) throw new Error('taskName is required')
                /\ calls' = [calls EXCEPT ![c] =
                      [args EXCEPT !.pc = "returned",
                                   !.out = ToolError("execute_task",
                                             [msg |-> "taskName is required"])]]
                /\ UNCHANGED runs
           ELSE IF target = 0
           THEN \* throw new Error(`Task '${taskName}' not found. Available ...`)
                /\ calls' = [calls EXCEPT ![c] =
                      [args EXCEPT !.pc = "returned",
                                   !.out = ToolError("execute_task",
                                             FailedToExecute(taskName,
                                               [msg |-> "not found",
                                                taskName |-> taskName,
                                                available |-> AvailableTasks(tasks)]))]]
                /\ UNCHANGED runs
           ELSE \* await vscode.tasks.executeTask(targetTask); new Promise(...)
                /\ Len(runs) < MaxRuns
                /\ runs' = Append(runs, NewRun(tasks[target], c))
                /\ calls' = [calls EXCEPT ![c] =
                      [args EXCEPT !.pc = "waiting",
                                   !.taskId = getTaskId(tasks[target]),
                                   !.run = Len(runs) + 1,
                                   !.stale = Leftover(executionResults,
                                                      getTaskId(tasks[target])),
                                   !.pollTimer = TRUE,
                                   !.timeoutTimer = TRUE]]
    /\ UNCHANGED <<tasks, taskExecutions, executionResults, consumed>>
    /\ UNCHANGED <<loggerVars, serverVars, socketVars>>

\* resolve(result) of the promise of call c: a no-op once it is settled.
Resolve(call, result) ==
    IF call.pc = "waiting"
    THEN [call EXCEPT !.pc = "returned", !.result = result, !.out = ExecuteOutcome(result)]
    ELSE call

\* reject(new Error(`Task '${taskName}' timed out after 5 minutes`)): the
\* promise is returned without await, so executeTask's own catch does not
\* see the rejection; MCPTools.executeTool's catch does.
Reject(call) ==
    IF call.pc = "waiting"
    THEN [call EXCEPT !.pc = "returned",
                      !.out = ToolError("execute_task",
                                [msg |-> "timed out after 5 minutes",
                                 taskName |-> call.taskName])]
    ELSE call

\* checkCompletion, run by the 100 ms timer of call c.
CheckCompletion(c) ==
    /\ c \in CallIds
    /\ calls[c].pollTimer
    /\ LET taskId == calls[c].taskId
           polled == [calls[c] EXCEPT !.polled = TRUE]
       IN  IF taskId \in DOMAIN executionResults
           THEN /\ executionResults' = ResultDelete(executionResults, taskId)
                /\ consumed' = consumed \cup {taskId}
                /\ calls' = [calls EXCEPT ![c] =
                      [Resolve(polled, executionResults[taskId]) EXCEPT !.pollTimer = FALSE]]
           ELSE IF MapHas(taskExecutions, taskId)
           THEN \* setTimeout(checkCompletion, 100)
                /\ calls' = [calls EXCEPT ![c] = polled]
                /\ UNCHANGED <<executionResults, consumed>>
           ELSE /\ calls' = [calls EXCEPT ![c] =
                      [Resolve(polled, FallbackResult(calls[c].taskName))
                         EXCEPT !.pollTimer = FALSE]]
                /\ UNCHANGED <<executionResults, consumed>>
    /\ UNCHANGED <<tasks, runs, taskExecutions>>
    /\ UNCHANGED <<loggerVars, serverVars, socketVars>>

\* The 5 minute timer of call c.  It is set together with the first 100 ms
\* poll timer, so it fires after at least one poll.
TimeoutTimer(c) ==
    /\ c \in CallIds
    /\ calls[c].timeoutTimer
    /\ calls[c].polled
    /\ calls' = [calls EXCEPT ![c] =
          [(IF MapHas(taskExecutions, calls[c].taskId) THEN Reject(calls[c]) ELSE calls[c])
             EXCEPT !.timeoutTimer = FALSE]]
    /\ UNCHANGED <<tasks, runs, taskExecutions, executionResults, consumed>>
    /\ UNCHANGED <<loggerVars, serverVars, socketVars>>

\* --------------------------------------------------------- get_task_details
\* MCPTools.executeTool('get_task_details') -> MCPTools.getTaskDetails
GetTaskDetails(c, taskName, source) ==
    /\ c \in CallIds
    /\ calls[c].pc = "idle"
    /\ \A d \in 1..(c - 1) : calls[d].pc # "idle"
    /\ LET infos  == getAllTasks(tasks)
           target == GetTaskDetailsLookup(infos, taskName, source)
           out    == IF taskName = NoName
                     THEN ToolError("get_task_details", [msg |-> "taskName is required"])
                     ELSE IF target = 0 THEN DetailsNotFound(taskName)
                     ELSE DetailsOutcome(infos[target])
       IN  calls' = [calls EXCEPT ![c] =
             [@ EXCEPT !.pc = "returned", !.tool = "get_task_details",
                       !.taskName = taskName, !.source = source,
                       !.fetched = (taskName # NoName), !.out = out]]
    /\ UNCHANGED <<tasks, runs, taskExecutions, executionResults, consumed>>
    /\ UNCHANGED <<loggerVars, serverVars, socketVars>>

\* ---------------------------------------------------------------- list_tasks
\* MCPTools.executeTool('list_tasks') -> MCPTools.listTasks
ListTasks(c, argFilter) ==
    /\ c \in CallIds
    /\ calls[c].pc = "idle"
    /\ \A d \in 1..(c - 1) : calls[d].pc # "idle"
    /\ calls' = [calls EXCEPT ![c] =
          [@ EXCEPT !.pc = "returned", !.tool = "list_tasks",
                    !.filter = argFilter, !.fetched = TRUE,
                    !.out = ListOutcome(ListFilter(getAllTasks(tasks), argFilter),
                                        argFilter)]]
    /\ UNCHANGED <<tasks, runs, taskExecutions, executionResults, consumed>>
    /\ UNCHANGED <<loggerVars, serverVars, socketVars>>

\* getAllTasks when vscode.tasks.fetchTasks rejects: getAllTasks rethrows
\* "Failed to fetch tasks: ...", executeTool's catch answers.
ListTasksFetchFails(c, argFilter) ==
    /\ c \in CallIds
    /\ calls[c].pc = "idle"
    /\ \A d \in 1..(c - 1) : calls[d].pc # "idle"
    /\ calls' = [calls EXCEPT ![c] =
          [@ EXCEPT !.pc = "returned", !.tool = "list_tasks",
                    !.filter = argFilter, !.fetched = TRUE,
                    !.registry = "fetchFails",
                    !.out = ToolError("list_tasks",
                              FailedToFetch([msg |-> "fetchTasks rejected"]))]]
    /\ UNCHANGED <<tasks, runs, taskExecutions, executionResults, consumed>>
    /\ UNCHANGED <<loggerVars, serverVars, socketVars>>

\* -------------------------------------------------- registry failures, execute
\* execute_task when vscode.tasks.fetchTasks rejects: executeTask's catch
\* wraps the error, executeTool's catch answers.
ExecuteTaskFetchFails(c, taskName, source) ==
    /\ c \in CallIds
    /\ calls[c].pc = "idle"
    /\ \A d \in 1..(c - 1) : calls[d].pc # "idle"
    /\ taskName # NoName
    /\ calls' = [calls EXCEPT ![c] =
          [@ EXCEPT !.pc = "returned", !.tool = "execute_task",
                    !.taskName = taskName, !.source = source,
                    !.fetched = TRUE, !.registry = "fetchFails",
                    !.out = ToolError("execute_task",
                              FailedToExecute(taskName,
                                [msg |-> "fetchTasks rejected"]))]]
    /\ UNCHANGED <<tasks, runs, taskExecutions, executionResults, consumed>>
    /\ UNCHANGED <<loggerVars, serverVars, socketVars>>

\* execute_task when vscode.tasks.executeTask rejects for the task found: no
\* run starts, no promise and no timer is created.
ExecuteTaskStartFails(c, taskName, source) ==
    /\ c \in CallIds
    /\ calls[c].pc = "idle"
    /\ \A d \in 1..(c - 1) : calls[d].pc # "idle"
    /\ taskName # NoName
    /\ ExecuteTaskLookup(tasks, taskName, source) # 0
    /\ calls' = [calls EXCEPT ![c] =
          [@ EXCEPT !.pc = "returned", !.tool = "execute_task",
                    !.taskName = taskName, !.source = source,
                    !.fetched = TRUE, !.registry = "startFails",
                    !.out = ToolError("execute_task",
                              FailedToExecute(taskName,
                                [msg |-> "executeTask rejected"]))]]
    /\ UNCHANGED <<tasks, runs, taskExecutions, executionResults, consumed>>
    /\ UNCHANGED <<loggerVars, serverVars, socketVars>>

\* get_task_details when vscode.tasks.fetchTasks rejects.
GetTaskDetailsFetchFails(c, taskName, source) ==
    /\ c \in CallIds
    /\ calls[c].pc = "idle"
    /\ \A d \in 1..(c - 1) : calls[d].pc # "idle"
    /\ taskName # NoName
    /\ calls' = [calls EXCEPT ![c] =
          [@ EXCEPT !.pc = "returned", !.tool = "get_task_details",
                    !.taskName = taskName, !.source = source,
                    !.fetched = TRUE, !.registry = "fetchFails",
                    !.out = ToolError("get_task_details",
                              FailedToFetch([msg |-> "fetchTasks rejected"]))]]
    /\ UNCHANGED <<tasks, runs, taskExecutions, executionResults, consumed>>
    /\ UNCHANGED <<loggerVars, serverVars, socketVars>>

\* -------------------------------------------------------- get_running_tasks
\* MCPTools.executeTool('get_running_tasks') -> MCPTools.getRunningTasks ->
\* TaskProvider.getRunningTasks
GetRunningTasks(c) ==
    /\ c \in CallIds
    /\ calls[c].pc = "idle"
    /\ \A d \in 1..(c - 1) : calls[d].pc # "idle"
    /\ calls' = [calls EXCEPT ![c] =
          [@ EXCEPT !.pc = "returned", !.tool = "get_running_tasks",
                    !.out = RunningOutcome(getRunningTasks(runs))]]
    /\ UNCHANGED <<tasks, runs, taskExecutions, executionResults, consumed>>
    /\ UNCHANGED <<loggerVars, serverVars, socketVars>>

\* ------------------------------------------------------------ terminate_task
\* TaskProvider.terminateTask and the rendering of its boolean: the first
\* execution of taskExecutions with the name gets terminate(); without one
\* the throw is caught inside terminateTask and false is returned.
Terminate(c, taskName) ==
    LET found == TerminateTaskFind(taskExecutions, runs, taskName)
        args  == [calls[c] EXCEPT !.pc = "returned", !.tool = "terminate_task",
                                  !.taskName = taskName]
    IN  IF found = 0
        THEN /\ calls' = [calls EXCEPT ![c] =
                   [args EXCEPT !.out = TerminateOutcome(taskName, FALSE)]]
             /\ UNCHANGED runs
        ELSE /\ runs' = [runs EXCEPT ![taskExecutions[found].run].terminations = @ + 1]
             /\ calls' = [calls EXCEPT ![c] =
                   [args EXCEPT !.out = TerminateOutcome(taskName, TRUE)]]

\* MCPTools.executeTool('terminate_task') -> MCPTools.terminateTask
TerminateTask(c, taskName) ==
    /\ c \in CallIds
    /\ calls[c].pc = "idle"
    /\ \A d \in 1..(c - 1) : calls[d].pc # "idle"
    /\ IF taskName = NoName
       THEN \* if (!args.taskName) throw new Error('taskName is required')
            /\ calls' = [calls EXCEPT ![c] =
                  [@ EXCEPT !.pc = "returned", !.tool = "terminate_task",
                            !.taskName = taskName,
                            !.out = ToolError("terminate_task",
                                      [msg |-> "taskName is required"])]]
            /\ UNCHANGED runs
       ELSE Terminate(c, taskName)
    /\ UNCHANGED <<tasks, taskExecutions, executionResults, consumed>>
    /\ UNCHANGED <<loggerVars, serverVars, socketVars>>

\* ------------------------------------------- the facade of the HTTP MCPServer
\* MCPServer.executeTool('terminate_task') -> MCPServer.terminateTask: the
\* name goes to TaskProvider.terminateTask unchecked.
ServerTerminateTask(c, taskName) ==
    /\ c \in CallIds
    /\ calls[c].pc = "idle"
    /\ \A d \in 1..(c - 1) : calls[d].pc # "idle"
    /\ Terminate(c, taskName)
    /\ UNCHANGED <<tasks, taskExecutions, executionResults, consumed>>
    /\ UNCHANGED <<loggerVars, serverVars, socketVars>>

\* MCPServer.executeTool('execute_task') -> MCPServer.executeTask ->
\* TaskProvider.executeTask: no check of args.taskName before the call.
ServerExecuteTask(c, taskName, source) ==
    /\ c \in CallIds
    /\ calls[c].pc = "idle"
    /\ \A d \in 1..(c - 1) : calls[d].pc # "idle"
    /\ LET target == ExecuteTaskLookup(tasks, taskName, source)
           args   == [calls[c] EXCEPT !.tool = "execute_task",
                                      !.taskName = taskName, !.source = source,
                                      !.fetched = TRUE]
       IN  IF target = 0
           THEN /\ calls' = [calls EXCEPT ![c] =
                      [args EXCEPT !.pc = "returned",
                                   !.out = ToolError("execute_task",
                                             FailedToExecute(taskName,
                                               [msg |-> "not found",
                                                taskName |-> taskName,
                                                available |-> AvailableTasks(tasks)]))]]
                /\ UNCHANGED runs
           ELSE /\ Len(runs) < MaxRuns
                /\ runs' = Append(runs, NewRun(tasks[target], c))
                /\ calls' = [calls EXCEPT ![c] =
                      [args EXCEPT !.pc = "waiting",
                                   !.taskId = getTaskId(tasks[target]),
                                   !.run = Len(runs) + 1,
                                   !.stale = Leftover(executionResults,
                                                      getTaskId(tasks[target])),
                                   !.pollTimer = TRUE,
                                   !.timeoutTimer = TRUE]]
    /\ UNCHANGED <<tasks, taskExecutions, executionResults, consumed>>
    /\ UNCHANGED <<loggerVars, serverVars, socketVars>>

\* MCPServer.executeTool('get_task_details') -> MCPServer.getTaskDetails:
\* getAllTasks comes first, args.taskName is never checked.
ServerGetTaskDetails(c, taskName, source) ==
    /\ c \in CallIds
    /\ calls[c].pc = "idle"
    /\ \A d \in 1..(c - 1) : calls[d].pc # "idle"
    /\ LET infos  == getAllTasks(tasks)
           target == GetTaskDetailsLookup(infos, taskName, source)
           out    == IF target = 0 THEN DetailsNotFound(taskName)
                     ELSE DetailsOutcome(infos[target])
       IN  calls' = [calls EXCEPT ![c] =
             [@ EXCEPT !.pc = "returned", !.tool = "get_task_details",
                       !.taskName = taskName, !.source = source,
                       !.fetched = TRUE, !.out = out]]
    /\ UNCHANGED <<tasks, runs, taskExecutions, executionResults, consumed>>
    /\ UNCHANGED <<loggerVars, serverVars, socketVars>>

\* -------------------------------------------------------------------- Logger
\* this.maxLogs = 1000
maxLogs == 1000

\* Faulty variant: the entry is pushed, nothing is evicted.
RotatePushOnly(history, entry) == Append(history, entry)

\* this.logs.push(entry); if (this.logs.length > this.maxLogs) this.logs.shift()
Rotate(history, entry) ==
    LET pushed == Append(history, entry)
    IN  IF Len(pushed) > maxLogs THEN Tail(pushed) ELSE pushed

\* Logger.log(level, message, context), also reached through debug, info,
\* warn and error.  An entry is represented by its timestamp, the number of
\* the call that made it; level, message and context play no part in the
\* history.
Log ==
    /\ logCalls < MaxLogCalls
    /\ logCalls' = logCalls + 1
    /\ logs' = Rotate(logs, logCalls + 1)
    /\ UNCHANGED <<trackerVars, serverVars, socketVars>>

\* ------------------------------------------------------------- executeTool
ToolNames ==
    {"list_tasks", "execute_task", "get_running_tasks", "terminate_task",
     "get_task_details"}

\* Faulty variant: two case labels are exchanged.
DispatchSwapped(name) ==
    CASE name = "list_tasks"        -> "listTasks"
      [] name = "execute_task"      -> "executeTask"
      [] name = "get_running_tasks" -> "terminateTask"
      [] name = "terminate_task"    -> "getRunningTasks"
      [] name = "get_task_details"  -> "getTaskDetails"
      [] OTHER                      -> "default"

\* switch (toolCall.name): the method of the case label, or the default
Dispatch(name) ==
    CASE name = "list_tasks"        -> "listTasks"
      [] name = "execute_task"      -> "executeTask"
      [] name = "get_running_tasks" -> "getRunningTasks"
      [] name = "terminate_task"    -> "terminateTask"
      [] name = "get_task_details"  -> "getTaskDetails"
      [] OTHER                      -> "default"

\* default: throw new Error(`Unknown tool: ${name}`), answered by the catch
\* of executeTool; no method of the facade, no call of the registry.
UnknownTool(c, name) ==
    /\ c \in CallIds
    /\ calls[c].pc = "idle"
    /\ \A d \in 1..(c - 1) : calls[d].pc # "idle"
    /\ calls' = [calls EXCEPT ![c] =
          [@ EXCEPT !.pc = "returned",
                    !.out = ToolError(name, [msg |-> "Unknown tool", name |-> name])]]
    /\ UNCHANGED <<tasks, runs, taskExecutions, executionResults, consumed>>
    /\ UNCHANGED <<loggerVars, serverVars, socketVars>>

\* MCPTools.executeTool({ name, arguments: { taskName, source } })
ExecuteTool(c, name, taskName, source) ==
    \/ Dispatch(name) = "listTasks" /\ ListTasks(c, NoFilter)
    \/ Dispatch(name) = "executeTask" /\ ExecuteTask(c, taskName, source)
    \/ Dispatch(name) = "getRunningTasks" /\ GetRunningTasks(c)
    \/ Dispatch(name) = "terminateTask" /\ TerminateTask(c, taskName)
    \/ Dispatch(name) = "getTaskDetails" /\ GetTaskDetails(c, taskName, source)
    \/ Dispatch(name) = "default" /\ UnknownTool(c, name)

\* MCPServer.executeTool({ name, arguments: { taskName, source } }), HTTP
ServerExecuteTool(c, name, taskName, source) ==
    \/ Dispatch(name) = "listTasks" /\ ListTasks(c, NoFilter)
    \/ Dispatch(name) = "executeTask" /\ ServerExecuteTask(c, taskName, source)
    \/ Dispatch(name) = "getRunningTasks" /\ GetRunningTasks(c)
    \/ Dispatch(name) = "terminateTask" /\ ServerTerminateTask(c, taskName)
    \/ Dispatch(name) = "getTaskDetails" /\ ServerGetTaskDetails(c, taskName, source)
    \/ Dispatch(name) = "default" /\ UnknownTool(c, name)

\* ------------------------------------------------------ MCPServer and extension
\* The MCPServer objects, their http servers, the calls made on them and the
\* extension's variable and commands, as one value.
Lifecycle ==
    [servers |-> servers, listeners |-> listeners, serverCalls |-> serverCalls,
     mcpServer |-> mcpServer, commands |-> commands]

SetLifecycle(L) ==
    /\ servers' = L.servers
    /\ listeners' = L.listeners
    /\ serverCalls' = L.serverCalls
    /\ mcpServer' = L.mcpServer
    /\ commands' = L.commands

\* No http server of this process holds config.port.
PortFree(ls) == \A l \in 1..Len(ls) : ls[l].state \notin {"binding", "listening"}

\* A start() or stop() call on MCPServer s: the http server it awaits
\* (0: none), the extension command that awaits the call (0: another
\* caller), and how the call stands.
ServerCall(op, s, l, cmd, pc, error) ==
    [op |-> op, server |-> s, listener |-> l, command |-> cmd, pc |-> pc,
     error |-> error]

\* Faulty variant: start does not look at isRunning.
startUnguarded(L, s, cmd, busy) ==
    LET l == Len(L.listeners) + 1
    IN  [L EXCEPT
           !.listeners = Append(@, [state |-> IF PortFree(L.listeners) /\ ~busy
                                              THEN "binding" ELSE "refused",
                                    server |-> s]),
           !.servers[s].httpServer = l,
           !.serverCalls = Append(@, ServerCall("start", s, l, cmd, "await", "none"))]

\* MCPServer.start up to its await: on a running server it throws; otherwise
\* it creates the http server and calls listen, which gets the port unless
\* the port is held (by an http server of this process or, busy, by another
\* process).
start(L, s, cmd, busy) ==
    IF L.servers[s].isRunning
    THEN [L EXCEPT !.serverCalls =
            Append(@, ServerCall("start", s, 0, cmd, "rejected",
                                 "MCP Server is already running"))]
    ELSE LET l == Len(L.listeners) + 1
         IN  [L EXCEPT
                !.listeners = Append(@, [state |-> IF PortFree(L.listeners) /\ ~busy
                                                   THEN "binding" ELSE "refused",
                                         server |-> s]),
                !.servers[s].httpServer = l,
                !.serverCalls = Append(@, ServerCall("start", s, l, cmd, "await", "none"))]

\* Faulty variant: stop closes the http server whether isRunning or not.
stopUnguarded(L, s, cmd) ==
    LET l == L.servers[s].httpServer
    IN  [L EXCEPT
           !.listeners = IF l # 0 /\ L.listeners[l].state = "listening"
                         THEN [@ EXCEPT ![l].state = "closing"] ELSE @,
           !.serverCalls = Append(@, ServerCall("stop", s, l, cmd, "await", "none"))]

\* MCPServer.stop up to its await: on a server that is not running it
\* returns; otherwise it calls close on the http server, which stops
\* listening at once.
stop(L, s, cmd) ==
    IF ~L.servers[s].isRunning
    THEN [L EXCEPT !.serverCalls =
            Append(@, ServerCall("stop", s, 0, cmd, "resolved", "none"))]
    ELSE LET l == L.servers[s].httpServer
         IN  [L EXCEPT
                !.listeners = IF l # 0 /\ L.listeners[l].state = "listening"
                              THEN [@ EXCEPT ![l].state = "closing"] ELSE @,
                !.serverCalls = Append(@, ServerCall("stop", s, l, cmd, "await", "none"))]

\* An extension command: start, stop or restart; the phase it is in, what
\* its stop part and its start part have answered, the MCPServer its start
\* part constructed (0: none).
NewCommand(kind) ==
    [kind |-> kind, phase |-> "new", stopped |-> "none", started |-> "none",
     server |-> 0]

\* Faulty variant: a new MCPServer is constructed whatever the current one
\* reports.
startMCPServerAlways(L, c, busy) ==
    LET s == Len(L.servers) + 1
        created == [L EXCEPT
                      !.servers = Append(@, [isRunning |-> FALSE, httpServer |-> 0]),
                      !.mcpServer = s,
                      !.commands[c].phase = "start",
                      !.commands[c].server = s]
    IN  start(created, s, c, busy)

\* extension.ts startMCPServer up to its await: a warning when the current
\* MCPServer reports running, otherwise a new MCPServer and its start().
startMCPServer(L, c, busy) ==
    IF L.mcpServer # 0 /\ L.servers[L.mcpServer].isRunning
    THEN [L EXCEPT !.commands[c].started = "warned", !.commands[c].phase = "done"]
    ELSE LET s == Len(L.servers) + 1
             created == [L EXCEPT
                           !.servers = Append(@, [isRunning |-> FALSE, httpServer |-> 0]),
                           !.mcpServer = s,
                           !.commands[c].phase = "start",
                           !.commands[c].server = s]
         IN  start(created, s, c, busy)

\* What follows the stop part of command c: nothing for the stop command,
\* startMCPServer for the restart command.
AfterStopMCPServer(L, c, busy) ==
    IF L.commands[c].kind = "restart"
    THEN startMCPServer(L, c, busy)
    ELSE [L EXCEPT !.commands[c].phase = "done"]

\* extension.ts stopMCPServer up to its await: a warning when there is no
\* MCPServer or it reports not running, otherwise its stop().
stopMCPServer(L, c, busy) ==
    IF L.mcpServer = 0 \/ ~L.servers[L.mcpServer].isRunning
    THEN AfterStopMCPServer([L EXCEPT !.commands[c].stopped = "warned"], c, busy)
    ELSE stop([L EXCEPT !.commands[c].phase = "stop"], L.mcpServer, c)

\* The rest of startMCPServer once start() has settled.
AfterStart(L, cmd, outcome) ==
    IF cmd = 0 THEN L
    ELSE [L EXCEPT !.commands[cmd].started = outcome, !.commands[cmd].phase = "done"]

\* The continuations of the commands that awaited the stop calls K, in the
\* order of the calls, from call k on.
RECURSIVE AfterStops(_, _, _, _, _)
AfterStops(L, K, k, n, busy) ==
    IF k > n THEN L
    ELSE IF k \in K /\ L.serverCalls[k].command # 0
    THEN LET c == L.serverCalls[k].command
         IN  AfterStops(AfterStopMCPServer([L EXCEPT !.commands[c].stopped = "stopped"],
                                           c, busy),
                        K, k + 1, n, busy)
    ELSE AfterStops(L, K, k + 1, n, busy)

\* Calls made on an MCPServer by a caller other than the three commands
\* (deactivate calls stop() directly).
DirectCalls == { k \in 1..Len(serverCalls) : serverCalls[k].command = 0 }

\* mcpServer.start() by another caller
Start(s, busy) ==
    /\ s \in 1..Len(servers)
    /\ Cardinality(DirectCalls) < MaxServerCalls
    /\ SetLifecycle(start(Lifecycle, s, 0, busy))
    /\ UNCHANGED <<trackerVars, loggerVars, socketVars>>

\* mcpServer.stop() by another caller
Stop(s) ==
    /\ s \in 1..Len(servers)
    /\ Cardinality(DirectCalls) < MaxServerCalls
    /\ SetLifecycle(stop(Lifecycle, s, 0))
    /\ UNCHANGED <<trackerVars, loggerVars, socketVars>>

\* The listen callback of http server l: start() resumes, isRunning = true,
\* and startMCPServer reports the start.
Listening(l) ==
    /\ l \in 1..Len(listeners)
    /\ listeners[l].state = "binding"
    /\ LET k == CHOOSE j \in 1..Len(serverCalls) :
                  serverCalls[j].op = "start" /\ serverCalls[j].listener = l
           s == listeners[l].server
           L == [Lifecycle EXCEPT !.listeners[l].state = "listening",
                                  !.servers[s].isRunning = TRUE,
                                  !.serverCalls[k].pc = "resolved"]
       IN  SetLifecycle(AfterStart(L, serverCalls[k].command, "started"))
    /\ UNCHANGED <<trackerVars, loggerVars, socketVars>>

\* The 'error' event of http server l: start() throws 'Failed to start MCP
\* Server: ...', startMCPServer shows the error.
ListenError(l) ==
    /\ l \in 1..Len(listeners)
    /\ listeners[l].state = "refused"
    /\ LET k == CHOOSE j \in 1..Len(serverCalls) :
                  serverCalls[j].op = "start" /\ serverCalls[j].listener = l
           L == [Lifecycle EXCEPT !.listeners[l].state = "failed",
                                  !.serverCalls[k].pc = "rejected",
                                  !.serverCalls[k].error = "Failed to start MCP Server"]
       IN  SetLifecycle(AfterStart(L, serverCalls[k].command, "failed"))
    /\ UNCHANGED <<trackerVars, loggerVars, socketVars>>

\* The 'close' event of http server l: every stop() that awaits it resumes
\* (httpServer = undefined, isRunning = false), then the commands that
\* awaited these calls go on.
Closed(l, busy) ==
    /\ l \in 1..Len(listeners)
    /\ LET K == { k \in 1..Len(serverCalls) :
                    /\ serverCalls[k].op = "stop"
                    /\ serverCalls[k].pc = "await"
                    /\ serverCalls[k].listener = l }
           s == listeners[l].server
           L == [Lifecycle EXCEPT
                   !.listeners[l].state = IF @ = "closing" THEN "closed" ELSE @,
                   !.servers[s].httpServer = 0,
                   !.servers[s].isRunning = FALSE,
                   !.serverCalls = [k \in 1..Len(serverCalls) |->
                                      IF k \in K
                                      THEN [serverCalls[k] EXCEPT !.pc = "resolved"]
                                      ELSE serverCalls[k]]]
       IN  /\ K # {}
           /\ SetLifecycle(AfterStops(L, K, 1, Len(serverCalls), busy))
    /\ UNCHANGED <<trackerVars, loggerVars, socketVars>>

\* The command mcpTaskServer.start (also the auto-start of activate)
StartCommand(busy) ==
    /\ Len(commands) < MaxCommands
    /\ LET c == Len(commands) + 1
           L == [Lifecycle EXCEPT !.commands = Append(@, NewCommand("start"))]
       IN  SetLifecycle(startMCPServer(L, c, busy))
    /\ UNCHANGED <<trackerVars, loggerVars, socketVars>>

\* The command mcpTaskServer.stop
StopCommand ==
    /\ Len(commands) < MaxCommands
    /\ LET c == Len(commands) + 1
           L == [Lifecycle EXCEPT !.commands = Append(@, NewCommand("stop"))]
       IN  SetLifecycle(stopMCPServer(L, c, FALSE))
    /\ UNCHANGED <<trackerVars, loggerVars, socketVars>>

\* The command mcpTaskServer.restart: await stopMCPServer(); await startMCPServer()
RestartCommand(busy) ==
    /\ Len(commands) < MaxCommands
    /\ LET c == Len(commands) + 1
           L == [Lifecycle EXCEPT !.commands = Append(@, NewCommand("restart"))]
       IN  SetLifecycle(stopMCPServer(L, c, busy))
    /\ UNCHANGED <<trackerVars, loggerVars, socketVars>>

\* ------------------------------------------------------- MCPServer (WebSocket)
\* A start() or stop() call on the WebSocket server.
WsCall(op, pc, error) == [op |-> op, pc |-> pc, error |-> error]

\* MCPServer.start: throws when this.server is set; otherwise it constructs
\* the WebSocket.Server and returns.  When the port is held by another
\* process the 'error' event is only logged: this.server stays set, nothing
\* listens.
WsStart(busy) ==
    /\ Len(wsCalls) < MaxWsCalls
    /\ IF wsServer # "undefined"
       THEN /\ wsCalls' = Append(wsCalls, WsCall("start", "rejected",
                                                 "MCP Server is already running"))
            /\ UNCHANGED wsServer
       ELSE /\ wsServer' = (IF busy THEN "unbound" ELSE "open")
            /\ wsCalls' = Append(wsCalls, WsCall("start", "resolved", "none"))
    /\ UNCHANGED <<clients, sockets, messages, replies>>
    /\ UNCHANGED <<trackerVars, loggerVars, serverVars>>

\* MCPServer.stop up to the close callback: returns when this.server is not
\* set; otherwise client.close() for every client, this.clients.clear(),
\* this.server.close(callback).
WsStop ==
    /\ Len(wsCalls) < MaxWsCalls
    /\ IF wsServer = "undefined"
       THEN /\ wsCalls' = Append(wsCalls, WsCall("stop", "resolved", "none"))
            /\ UNCHANGED <<wsServer, clients, sockets>>
       ELSE /\ sockets' = [x \in SocketIds |->
                             IF x \in clients /\ sockets[x] = "open"
                             THEN "closing" ELSE sockets[x]]
            /\ clients' = {}
            /\ wsServer' = "closing"
            /\ wsCalls' = Append(wsCalls, WsCall("stop", "await", "none"))
    /\ UNCHANGED <<messages, replies>>
    /\ UNCHANGED <<trackerVars, loggerVars, serverVars>>

\* The 'close' event of the WebSocket.Server: the callback of every stop()
\* that awaits it runs, this.server = undefined.
WsClosed ==
    /\ wsServer = "closing"
    /\ wsServer' = "undefined"
    /\ wsCalls' = [k \in 1..Len(wsCalls) |->
                     IF wsCalls[k].pc = "await"
                     THEN [wsCalls[k] EXCEPT !.pc = "resolved"] ELSE wsCalls[k]]
    /\ UNCHANGED <<clients, sockets, messages, replies>>
    /\ UNCHANGED <<trackerVars, loggerVars, serverVars>>

\* A message the server sends: to socket x, in answer to message re (0: not
\* an answer), with the id it carries.
Reply(x, re, id, kind, code) ==
    [to |-> x, re |-> re, id |-> id, kind |-> kind, code |-> code]

\* sendMessage: if (ws.readyState === WebSocket.OPEN) ws.send(...)
sendMessage(sent, x, message) ==
    IF sockets[x] = "open" THEN Append(sent, message) ELSE sent

\* The ids a JSON-RPC message may carry, as JSON text: the numbers 1 and 0,
\* the empty string, null.  NoId: the message has no member 'id'.
Ids  == {"1", "0", "\"\"", "null"}
NoId == "absent"

\* id || 0
OrZero(id) == IF id \in {"0", "\"\"", "null"} THEN "0" ELSE id

\* sendResponse(ws, id, result)
sendResponse(sent, x, re, id) == sendMessage(sent, x, Reply(x, re, id, "result", 0))

\* Faulty variant: every error is sent as an internal error.
sendErrorInternal(sent, x, re, id, code) ==
    sendMessage(sent, x, Reply(x, re, OrZero(id), "error", -32603))

\* sendError(ws, id, code, message): id: id || 0
sendError(sent, x, re, id, code) ==
    sendMessage(sent, x, Reply(x, re, OrZero(id), "error", code))

\* The 'connection' event: handleClientConnection adds the socket and sends
\* the 'initialized' notification.
WsConnect(x) ==
    /\ wsServer = "open"
    /\ sockets[x] = "none"
    /\ sockets' = [sockets EXCEPT ![x] = "open"]
    /\ clients' = clients \cup {x}
    /\ replies' = Append(replies, Reply(x, 0, NoId, "notification", 0))
    /\ UNCHANGED <<wsServer, wsCalls, messages>>
    /\ UNCHANGED <<trackerVars, loggerVars, serverVars>>

\* The 'close' event of socket x (the client left, or the close the server
\* asked for is done): this.clients.delete(ws)
WsSocketClosed(x) ==
    /\ sockets[x] \in {"open", "closing"}
    /\ sockets' = [sockets EXCEPT ![x] = "closed"]
    /\ clients' = clients \ {x}
    /\ UNCHANGED <<wsServer, wsCalls, messages, replies>>
    /\ UNCHANGED <<trackerVars, loggerVars, serverVars>>

Methods ==
    {"initialize", "tools/list", "tools/call", "ping", "notifications/initialized",
     "nope"}

\* The messages a client sends: text that is no JSON, or an object with or
\* without id, with a method and, for tools/call, with or without
\* params.name.
Unparsable == [parsed |-> FALSE, id |-> NoId, method |-> "none", named |-> FALSE]

ClientMessages ==
    {Unparsable}
      \cup { [parsed |-> TRUE, id |-> i, method |-> m, named |-> n] :
               i \in Ids \cup {NoId}, m \in Methods \ {"tools/call"}, n \in {FALSE} }
      \cup { [parsed |-> TRUE, id |-> i, method |-> "tools/call", named |-> n] :
               i \in Ids \cup {NoId}, n \in BOOLEAN }

\* handleRequest: what the switch yields without waiting for a tool
\* ("result", "error") or that mcpTools.executeTool is awaited ("tool").
handleRequest(msg) ==
    CASE msg.method \in {"initialize", "tools/list", "ping"} -> "result"
      [] msg.method = "tools/call" -> IF msg.named THEN "tool" ELSE "error"
      [] OTHER -> "error"

\* The 'message' event of socket x: JSON.parse, handleMessage.  socket,
\* wasOpen and pc are history: who sent the message, whether the socket was
\* open when the server answered or dropped the answer, and whether a tool
\* is still awaited.
WsMessage(x, msg) ==
    /\ Len(messages) < MaxMessages
    /\ sockets[x] \in {"open", "closing"}
    /\ msg \in ClientMessages
    /\ LET m    == Len(messages) + 1
           open == sockets[x] = "open"
           rec  == [parsed |-> msg.parsed, id |-> msg.id, method |-> msg.method,
                    named |-> msg.named, socket |-> x, wasOpen |-> open,
                    pc |-> "done"]
       IN  IF ~msg.parsed
           THEN \* catch: sendError(ws, null, -32700, 'Parse error')
                /\ replies' = sendError(replies, x, m, "null", -32700)
                /\ messages' = Append(messages, rec)
           ELSE IF msg.id = NoId
           THEN \* handleNotification: logged, nothing is sent
                /\ messages' = Append(messages, rec)
                /\ UNCHANGED replies
           ELSE IF handleRequest(msg) = "result"
           THEN /\ replies' = sendResponse(replies, x, m, msg.id)
                /\ messages' = Append(messages, rec)
           ELSE IF handleRequest(msg) = "error"
           THEN /\ replies' = sendError(replies, x, m, msg.id, -32603)
                /\ messages' = Append(messages, rec)
           ELSE \* await this.mcpTools.executeTool(toolCall)
                /\ messages' = Append(messages, [rec EXCEPT !.pc = "tool"])
                /\ UNCHANGED replies
    /\ UNCHANGED <<wsServer, clients, sockets, wsCalls>>
    /\ UNCHANGED <<trackerVars, loggerVars, serverVars>>

\* mcpTools.executeTool has returned its Outcome (it never rejects) for the
\* tools/call message m: sendResponse(ws, request.id, result)
WsToolReturns(m) ==
    /\ m \in 1..Len(messages)
    /\ messages[m].pc = "tool"
    /\ messages[m].socket \in SocketIds
    /\ replies' = sendResponse(replies, messages[m].socket, m, messages[m].id)
    /\ messages' = [messages EXCEPT ![m].pc = "done",
                                    ![m].wasOpen = (sockets[messages[m].socket] = "open")]
    /\ UNCHANGED <<wsServer, clients, sockets, wsCalls>>
    /\ UNCHANGED <<trackerVars, loggerVars, serverVars>>

\* ---------------------------------------------- MCPServer (HTTP): POST /mcp
\* handleMCPRequest, the 'end' callback of the request body: JSON.parse, the
\* switch over request.method, the response.  A request is recorded like a
\* socket message, with socket 0; the response is written whatever the
\* client does.  A body that is no JSON gets status 400 with error -32700.
HandleMCPRequest(msg) ==
    /\ Len(messages) < MaxMessages
    /\ \E l \in 1..Len(listeners) : listeners[l].state = "listening"
    /\ msg \in ClientMessages
    /\ LET m   == Len(messages) + 1
           rec == [parsed |-> msg.parsed, id |-> msg.id, method |-> msg.method,
                   named |-> msg.named, socket |-> 0, wasOpen |-> TRUE,
                   pc |-> "done"]
       IN  IF ~msg.parsed
           THEN /\ replies' = Append(replies, Reply(0, m, "null", "error", -32700))
                /\ messages' = Append(messages, rec)
           ELSE IF msg.method \in {"initialize", "tools/list"}
           THEN /\ replies' = Append(replies, Reply(0, m, msg.id, "result", 0))
                /\ messages' = Append(messages, rec)
           ELSE IF msg.method = "tools/call"
           THEN \* await this.executeTool(request.params)
                /\ messages' = Append(messages, [rec EXCEPT !.pc = "tool"])
                /\ UNCHANGED replies
           ELSE /\ replies' = Append(replies, Reply(0, m, msg.id, "error", -32601))
                /\ messages' = Append(messages, rec)
    /\ UNCHANGED <<wsServer, clients, sockets, wsCalls>>
    /\ UNCHANGED <<trackerVars, loggerVars, serverVars>>

\* MCPServer.executeTool has returned its Outcome for the tools/call request
\* m: the response carries it as result.
HttpToolReturns(m) ==
    /\ m \in 1..Len(messages)
    /\ messages[m].pc = "tool"
    /\ messages[m].socket = 0
    /\ replies' = Append(replies, Reply(0, m, messages[m].id, "result", 0))
    /\ messages' = [messages EXCEPT ![m].pc = "done"]
    /\ UNCHANGED <<wsServer, clients, sockets, wsCalls>>
    /\ UNCHANGED <<trackerVars, loggerVars, serverVars>>

\* ------------------------------------------------------------ specifications
ArgNames   == Names \cup {NoName}
ArgSources == Sources \cup {NoSource}

\* The arguments the tracker specification calls the tools with: an
\* ambiguous name with the source of its second descriptor, and an absent
\* name.  The lookup specification below goes through every argument pair.
TrackerArgs == { <<"build", "grunt">>, <<"test", NoSource>> }

Next ==
    \/ \E i \in 1..MaxTasks : UserStartsTask(i)
    \/ \E r \in 1..MaxRuns : OnDidStartTask(r)
    \/ \E r \in 1..MaxRuns : OnDidEndTask(r)
    \/ \E r \in 1..MaxRuns, code \in EventCodes : OnDidEndTaskProcess(r, code)
    \/ \E c \in CallIds, a \in TrackerArgs : ExecuteTask(c, a[1], a[2])
    \/ \E c \in CallIds : CheckCompletion(c)
    \/ \E c \in CallIds : TimeoutTimer(c)
    \/ \E c \in CallIds, a \in TrackerArgs : GetTaskDetails(c, a[1], a[2])

Spec == Init /\ [][Next]_vars

\* The tracker with its timers scheduled fairly: a poll timer that is armed
\* fires, and so does the timeout timer; the registry fires its events when
\* it pleases, or never (a task may run for ever).
TimersFair ==
    \A c \in CallIds : WF_vars(CheckCompletion(c)) /\ WF_vars(TimeoutTimer(c))

SpecFair == Init /\ [][Next]_vars /\ TimersFair

\* The lookup of execute_task and get_task_details over every task list and
\* every argument pair; the runs the calls request start and end.
NextLookup ==
    \/ \E r \in 1..MaxRuns : OnDidStartTask(r)
    \/ \E r \in 1..MaxRuns : OnDidEndTask(r)
    \/ \E c \in CallIds, n \in ArgNames, s \in ArgSources : ExecuteTask(c, n, s)
    \/ \E c \in CallIds, n \in ArgNames, s \in ArgSources : GetTaskDetails(c, n, s)

SpecLookup == InitLookup /\ [][NextLookup]_vars

\* list_tasks as a function of the enumerated list and of the filter: every
\* list of searchable descriptors, every filter string.
InitList == tasks \in ListTaskLists /\ InitTracker

NextList == \E c \in ToolCallIds, f \in Filters : ListTasks(c, f)

SpecList == InitList /\ [][NextList]_vars

\* The five tools of both facades over the tracker: a task may be running
\* already when the extension is activated (its start event was fired before
\* the tracker listened), the user starts further ones, the registry may
\* reject fetchTasks and executeTask.
PriorRun == [NewRun(ToolTasks[2], 0) EXCEPT !.started = TRUE]

InitTools ==
    /\ InitLogger /\ InitServers /\ InitSockets
    /\ tasks = ToolTasks
    /\ runs \in {<<>>, <<PriorRun>>}
    /\ taskExecutions = <<>>
    /\ executionResults = [k \in {} |-> NoResult]
    /\ calls = [c \in CallIds |-> IdleCall]
    /\ consumed = {}

UnknownName == "lint"

ToolArgs == { <<"build", "grunt">>, <<UnknownName, NoSource>>, <<NoName, NoSource>> }

TerminateNames == {"build", "test", NoName}

NextTools ==
    \/ \E i \in 1..Len(ToolTasks) : UserStartsTask(i)
    \/ \E r \in 1..MaxRuns : OnDidStartTask(r)
    \/ \E r \in 1..MaxRuns : OnDidEndTask(r)
    \/ \E c \in ToolCallIds, a \in ToolArgs : ExecuteTask(c, a[1], a[2])
    \/ \E c \in ToolCallIds, a \in ToolArgs : ExecuteTaskFetchFails(c, a[1], a[2])
    \/ \E c \in ToolCallIds, a \in ToolArgs : ExecuteTaskStartFails(c, a[1], a[2])
    \/ \E c \in ToolCallIds : CheckCompletion(c)
    \/ \E c \in ToolCallIds : TimeoutTimer(c)
    \/ \E c \in ToolCallIds : ListTasks(c, NoFilter)
    \/ \E c \in ToolCallIds : ListTasksFetchFails(c, NoFilter)
    \/ \E c \in ToolCallIds : GetRunningTasks(c)
    \/ \E c \in ToolCallIds, n \in TerminateNames : TerminateTask(c, n)
    \/ \E c \in ToolCallIds, a \in ToolArgs : GetTaskDetails(c, a[1], a[2])
    \/ \E c \in ToolCallIds, a \in ToolArgs : GetTaskDetailsFetchFails(c, a[1], a[2])
    \/ \E c \in ToolCallIds, a \in ToolArgs : ServerExecuteTask(c, a[1], a[2])
    \/ \E c \in ToolCallIds, n \in TerminateNames : ServerTerminateTask(c, n)
    \/ \E c \in ToolCallIds, a \in ToolArgs : ServerGetTaskDetails(c, a[1], a[2])

SpecTools == InitTools /\ [][NextTools]_vars

\* The same tools with the process-exit events of the registry: the results
\* a call consumes may carry an exit code.
NextOutcomes ==
    \/ \E i \in 1..Len(ToolTasks) : UserStartsTask(i)
    \/ \E r \in 1..MaxRuns : OnDidStartTask(r)
    \/ \E r \in 1..MaxRuns : OnDidEndTask(r)
    \/ \E r \in 1..MaxRuns, code \in EventCodes : OnDidEndTaskProcess(r, code)
    \/ \E c \in ToolCallIds, a \in ToolArgs : ExecuteTask(c, a[1], a[2])
    \/ \E c \in ToolCallIds, a \in ToolArgs : ExecuteTaskFetchFails(c, a[1], a[2])
    \/ \E c \in ToolCallIds, a \in ToolArgs : ExecuteTaskStartFails(c, a[1], a[2])
    \/ \E c \in ToolCallIds : CheckCompletion(c)
    \/ \E c \in ToolCallIds : TimeoutTimer(c)
    \/ \E c \in ToolCallIds : ListTasks(c, NoFilter)
    \/ \E c \in ToolCallIds : GetRunningTasks(c)
    \/ \E c \in ToolCallIds, n \in TerminateNames : TerminateTask(c, n)
    \/ \E c \in ToolCallIds, a \in ToolArgs : GetTaskDetails(c, a[1], a[2])
    \/ \E c \in ToolCallIds, a \in ToolArgs : ServerExecuteTask(c, a[1], a[2])
    \/ \E c \in ToolCallIds, n \in TerminateNames : ServerTerminateTask(c, n)

SpecOutcomes == InitTools /\ [][NextOutcomes]_vars

\* The dispatcher of both facades: every tool name a client may send, the
\* five known ones, a name no case label has, and a missing name.
RequestedNames == ToolNames \cup {"run_task", NoName}

NextDispatch ==
    \/ \E i \in 1..Len(ToolTasks) : UserStartsTask(i)
    \/ \E r \in 1..MaxRuns : OnDidStartTask(r)
    \/ \E r \in 1..MaxRuns : OnDidEndTask(r)
    \/ \E c \in ToolCallIds, n \in RequestedNames, a \in ToolArgs :
          ExecuteTool(c, n, a[1], a[2])
    \/ \E c \in ToolCallIds, n \in RequestedNames, a \in ToolArgs :
          ServerExecuteTool(c, n, a[1], a[2])
    \/ \E c \in ToolCallIds : CheckCompletion(c)
    \/ \E c \in ToolCallIds : TimeoutTimer(c)

SpecDispatch == InitTools /\ [][NextDispatch]_vars

\* The logger on its own: any number of log calls, more than the history
\* holds.
InitLoggerOnly == tasks = <<>> /\ InitTracker

NextLogger == Log

SpecLogger == InitLoggerOnly /\ [][NextLogger]_vars

\* The MCPServer objects and the extension commands: commands may overlap
\* (each is an async function), the port may be held by another process.
InitLifecycle == tasks = <<>> /\ InitTracker

\* One build of the extension holds one of the two MCPServer classes.
HttpBuild   == wsServer = "undefined" /\ wsCalls = <<>>
SocketBuild == servers = <<>> /\ commands = <<>>

NextLifecycle ==
    \/ HttpBuild /\ \E busy \in BOOLEAN : StartCommand(busy)
    \/ HttpBuild /\ StopCommand
    \/ HttpBuild /\ \E busy \in BOOLEAN : RestartCommand(busy)
    \/ \E s \in 1..MaxCommands, busy \in BOOLEAN : Start(s, busy)
    \/ \E s \in 1..MaxCommands : Stop(s)
    \/ \E l \in 1..(MaxCommands + MaxServerCalls) : Listening(l)
    \/ \E l \in 1..(MaxCommands + MaxServerCalls) : ListenError(l)
    \/ \E l \in 1..(MaxCommands + MaxServerCalls), busy \in BOOLEAN : Closed(l, busy)
    \/ SocketBuild /\ \E busy \in BOOLEAN : WsStart(busy)
    \/ SocketBuild /\ WsStop
    \/ WsClosed
    \/ \E x \in SocketIds : WsConnect(x)
    \/ \E x \in SocketIds : WsSocketClosed(x)

SpecLifecycle == InitLifecycle /\ [][NextLifecycle]_vars

\* The WebSocket server with its clients and their messages.
NextSocket ==
    \/ \E busy \in BOOLEAN : WsStart(busy)
    \/ WsStop
    \/ WsClosed
    \/ \E x \in SocketIds : WsConnect(x)
    \/ \E x \in SocketIds : WsSocketClosed(x)
    \/ \E x \in SocketIds, msg \in ClientMessages : WsMessage(x, msg)
    \/ \E m \in 1..MaxMessages : WsToolReturns(m)

SpecSocket == InitLifecycle /\ [][NextSocket]_vars

\* The messages of the clients of either server: requests to POST /mcp of
\* the HTTP MCPServer, messages on the sockets of the WebSocket MCPServer.
NextParse ==
    \/ HttpBuild /\ \E busy \in BOOLEAN : StartCommand(busy)
    \/ \E l \in 1..(MaxCommands + MaxServerCalls) : Listening(l)
    \/ \E l \in 1..(MaxCommands + MaxServerCalls) : ListenError(l)
    \/ \E msg \in ClientMessages : HandleMCPRequest(msg)
    \/ \E m \in 1..MaxMessages : HttpToolReturns(m)
    \/ SocketBuild /\ \E busy \in BOOLEAN : WsStart(busy)
    \/ SocketBuild /\ WsStop
    \/ WsClosed
    \/ \E x \in SocketIds : WsConnect(x)
    \/ \E x \in SocketIds : WsSocketClosed(x)
    \/ \E x \in SocketIds, msg \in ClientMessages : WsMessage(x, msg)
    \/ \E m \in 1..MaxMessages : WsToolReturns(m)

SpecParse == InitLifecycle /\ [][NextParse]_vars

\* ================================================================== claims
\* The Outcome of a call tells that the call failed with the timeout error.
TimedOut(call) ==
    /\ call.out.kind = "error"
    /\ call.out.err.msg = "timed out after 5 minutes"

\* The key of call c was in taskExecutions at every poll so far: the call
\* never took the fallback branch of checkCompletion.
NeverSawKeyMissing(call) == call.result # FallbackResult(call.taskName)

\* C1: when a process-exit event with exit code c is handled for a key whose
\* result is still buffered in executionResults (the end event came first),
\* the buffered result afterwards has exitCode = c and success = (c = 0),
\* whatever it held before; every other buffered result is untouched.
C1_ExitCodePatchesBufferedResult ==
    [][\A r \in 1..MaxRuns, code \in EventCodes :
         (OnDidEndTaskProcess(r, code)
            /\ getTaskId(runs[r].task) \in DOMAIN executionResults)
         => LET k == getTaskId(runs[r].task)
            IN  /\ DOMAIN executionResults' = DOMAIN executionResults
                /\ executionResults'[k].exitCode = code
                /\ executionResults'[k].success = (code = 0)
                /\ executionResults'[k].taskName = executionResults[k].taskName
                /\ \A j \in DOMAIN executionResults \ {k} :
                       executionResults'[j] = executionResults[j]]_vars

\* C1 witness: a buffered result that an exit code of 1 has turned from the
\* provisional success into a failure.
C1_Witness ==
    \E k \in DOMAIN executionResults :
        executionResults[k].exitCode = 1 /\ ~executionResults[k].success

\* C2: a buffered result is handed out exactly once: the poll that sees a
\* result for its key removes it from executionResults and returns it to its
\* caller, and no two calls are handed the result of the same end event.
C2_HandedOutExactlyOnce ==
    /\ [][\A c \in CallIds :
            (CheckCompletion(c) /\ calls[c].taskId \in DOMAIN executionResults)
            => /\ calls[c].taskId \notin DOMAIN executionResults'
               /\ calls'[c].pc = "returned"
               /\ calls'[c].result = executionResults[calls[c].taskId]]_vars
    /\ [](\A c \in CallIds, d \in CallIds :
            (c # d /\ calls[c].result.run > 0) => calls[c].result.run # calls[d].result.run)

\* C3: when the 5 minute timer of a call fires while no end and no
\* process-exit event of the run it started has been handled and its key has
\* been in taskExecutions at every poll and still is, the call returns an
\* error Outcome that reports the timeout, and the timer leaves the run and
\* taskExecutions as they are.
C3_TimeoutReported ==
    [][\A c \in CallIds :
         (/\ TimeoutTimer(c)
          /\ calls[c].run > 0
          /\ ~runs[calls[c].run].ended
          /\ ~runs[calls[c].run].exited
          /\ NeverSawKeyMissing(calls[c])
          /\ MapHas(taskExecutions, calls[c].taskId))
         => /\ calls'[c].pc = "returned"
            /\ calls'[c].out.isError
            /\ TimedOut(calls'[c])
            /\ UNCHANGED <<runs, taskExecutions>>]_vars

\* C4: once an execute call has failed with the timeout and the end event of
\* the run it started has buffered a result, that result stays in
\* executionResults (a later end event for the key replaces it, a
\* process-exit event patches it, nothing removes it).
C4_UnawaitedResultStays ==
    [][\A c \in CallIds :
         (/\ TimedOut(calls[c])
          /\ calls[c].taskId \in DOMAIN executionResults
          /\ executionResults[calls[c].taskId].run = calls[c].run)
         => calls[c].taskId \in DOMAIN executionResults']_vars

\* C5: execute(name, source) with a source given, when several descriptors
\* share the name and one of them has that source, starts a descriptor whose
\* source is the given one, whatever the enumeration order.
C5_SourceSelectsDescriptor ==
    \A c \in CallIds :
        (/\ calls[c].tool = "execute_task"
         /\ calls[c].source # NoSource
         /\ calls[c].run > 0
         /\ \E i \in 1..Len(tasks) :
               tasks[i].name = calls[c].taskName /\ tasks[i].source = calls[c].source)
        => /\ runs[calls[c].run].task.name = calls[c].taskName
           /\ runs[calls[c].run].task.source = calls[c].source

\* C5 failing input: <<build/npm, build/grunt>> and execute("build", "grunt").
C5_FailingInput ==
    \E c \in CallIds :
        /\ calls[c].tool = "execute_task" /\ calls[c].run > 0
        /\ calls[c].taskName = "build" /\ calls[c].source = "grunt"
        /\ runs[calls[c].run].task.source = "npm"

\* Some descriptor of the enumerated list has the name.
NameListed(taskName) == \E i \in 1..Len(tasks) : tasks[i].name = taskName

\* i is the first index of the enumerated list whose descriptor has the name.
FirstWithName(i, taskName) ==
    /\ i \in 1..Len(tasks)
    /\ tasks[i].name = taskName
    /\ \A j \in 1..(i - 1) : tasks[j].name # taskName

\* C6: execute(name) without source starts the first descriptor of the
\* enumerated list that has the name, also when several share it; two such
\* calls on the same list start the same descriptor.
C6_FirstEnumeratedWins ==
    /\ \A c \in CallIds :
          (/\ calls[c].tool = "execute_task"
           /\ calls[c].source = NoSource
           /\ NameListed(calls[c].taskName))
          => /\ calls[c].run > 0
             /\ \E i \in 1..Len(tasks) :
                   /\ FirstWithName(i, calls[c].taskName)
                   /\ runs[calls[c].run].task = tasks[i]
    /\ \A c \in CallIds, d \in CallIds :
          (/\ calls[c].tool = "execute_task" /\ calls[d].tool = "execute_task"
           /\ calls[c].source = NoSource /\ calls[d].source = NoSource
           /\ calls[c].taskName = calls[d].taskName
           /\ calls[c].run > 0 /\ calls[d].run > 0)
          => runs[calls[c].run].task = runs[calls[d].run].task

\* C6 witness: a call without source has started the first of two
\* descriptors that share its name and differ in source.
C6_Witness ==
    \E c \in CallIds, i \in 1..Len(tasks), j \in 1..Len(tasks) :
        /\ calls[c].tool = "execute_task" /\ calls[c].source = NoSource
        /\ calls[c].run > 0
        /\ i < j
        /\ tasks[i].name = calls[c].taskName /\ tasks[j].name = calls[c].taskName
        /\ tasks[i].source # tasks[j].source
        /\ runs[calls[c].run].task = tasks[i]

\* C7: execute(name) for a name no enumerated descriptor has returns an
\* error Outcome whose message lists the source:name pair of every
\* enumerated task, in order; the step starts no run and leaves
\* taskExecutions and executionResults unchanged.
C7_NotFoundListsTasks ==
    [][\A c \in CallIds :
         (/\ calls[c].pc = "idle"
          /\ calls'[c].tool = "execute_task"
          /\ calls'[c].taskName # NoName
          /\ ~NameListed(calls'[c].taskName))
         => /\ calls'[c].pc = "returned"
            /\ calls'[c].out.isError
            /\ calls'[c].out.kind = "error"
            /\ calls'[c].out.err.cause.msg = "not found"
            /\ Len(calls'[c].out.err.cause.available) = Len(tasks)
            /\ \A i \in 1..Len(tasks) :
                  calls'[c].out.err.cause.available[i] = <<tasks[i].source, tasks[i].name>>
            /\ UNCHANGED <<runs, taskExecutions, executionResults>>]_vars

\* C7 witness: a call has been answered with the not-found error while the
\* registry lists two tasks and the tracker holds a buffered result.
C7_Witness ==
    \E c \in CallIds :
        /\ calls[c].tool = "execute_task" /\ calls[c].pc = "returned"
        /\ calls[c].out.kind = "error"
        /\ calls[c].out.err.msg = "Failed to execute task"
        /\ Len(calls[c].out.err.cause.available) = 2
        /\ DOMAIN executionResults # {}

\* C8: with two descriptors of one name and different sources enumerated,
\* describe(name, source) with the source of one of them renders that one:
\* its text has 'Source: <source>', whichever of the two comes first.
C8_DetailsOfGivenSource ==
    \A c \in CallIds :
        (/\ calls[c].tool = "get_task_details"
         /\ calls[c].source # NoSource
         /\ \E i \in 1..Len(tasks), j \in 1..Len(tasks) :
               /\ tasks[i].name = calls[c].taskName /\ tasks[j].name = calls[c].taskName
               /\ tasks[i].source = calls[c].source /\ tasks[j].source # calls[c].source)
        => /\ calls[c].out.kind = "details"
           /\ calls[c].out.title = calls[c].taskName
           /\ calls[c].out.sourceLine = calls[c].source

\* C8 failing input: <<build/npm, build/grunt>> and describe("build", "grunt").
C8_FailingInput ==
    \E c \in CallIds :
        /\ calls[c].tool = "get_task_details"
        /\ calls[c].taskName = "build" /\ calls[c].source = "grunt"
        /\ calls[c].out.kind = "details" /\ calls[c].out.sourceLine = "npm"

\* C9: describe(name, source) renders the descriptor that execute(name,
\* source) starts on the same list (and reports not found exactly when
\* execute finds nothing), and a describe step starts no run and leaves
\* taskExecutions and executionResults unchanged.
C9_DescribeResolvesAsExecute ==
    /\ [](\A c \in CallIds :
            (calls[c].tool = "get_task_details" /\ calls[c].taskName # NoName)
            => LET target == ExecuteTaskLookup(tasks, calls[c].taskName, calls[c].source)
               IN  /\ (target = 0) = (calls[c].out.kind = "notFound")
                   /\ target # 0 =>
                         /\ calls[c].out.kind = "details"
                         /\ calls[c].out.title = tasks[target].name
                         /\ calls[c].out.sourceLine = tasks[target].source
                         /\ calls[c].out.scopeLine = tasks[target].scope)
    /\ [](\A c \in CallIds, d \in CallIds :
            (/\ calls[c].tool = "get_task_details" /\ calls[d].tool = "execute_task"
             /\ calls[c].taskName = calls[d].taskName /\ calls[c].source = calls[d].source
             /\ calls[c].taskName # NoName)
            => IF calls[d].run > 0
               THEN /\ calls[c].out.kind = "details"
                    /\ calls[c].out.title = runs[calls[d].run].task.name
                    /\ calls[c].out.sourceLine = runs[calls[d].run].task.source
                    /\ calls[c].out.scopeLine = runs[calls[d].run].task.scope
               ELSE calls[c].out.kind = "notFound")
    /\ [][\A c \in CallIds :
            (calls[c].pc = "idle" /\ calls'[c].tool = "get_task_details")
            => UNCHANGED <<runs, taskExecutions, executionResults>>]_vars

\* C9 witness: on a list with two descriptors of one name, a describe call
\* and an execute call with the same name and source have both been
\* answered with the same descriptor while a result is buffered.
C9_Witness ==
    \E c \in CallIds, d \in CallIds :
        /\ calls[c].tool = "get_task_details" /\ calls[d].tool = "execute_task"
        /\ calls[c].taskName = calls[d].taskName /\ calls[c].source = calls[d].source
        /\ calls[c].source # NoSource
        /\ calls[d].run > 0
        /\ calls[c].out.kind = "details"
        /\ calls[c].out.sourceLine = runs[calls[d].run].task.source
        /\ \E i \in 1..Len(tasks), j \in 1..Len(tasks) :
              tasks[i].name = calls[c].taskName /\ tasks[j].name = calls[c].taskName
                /\ tasks[i].source # tasks[j].source
        /\ d < c
        /\ DOMAIN executionResults # {}

SameLetter(x, y) == ToLowerChar(x) = ToLowerChar(y)

\* Text s contains text f case-insensitively.
ContainsIgnoringCase(s, f) ==
    \E k \in 0..(Len(s) - Len(f)) : \A i \in 1..Len(f) : SameLetter(s[k + i], f[i])

\* The name, the source or the group of a TaskInfo contains f.
Satisfies(info, f) ==
    \/ ContainsIgnoringCase(info.name, f)
    \/ ContainsIgnoringCase(info.source, f)
    \/ ContainsIgnoringCase(info.group, f)

\* The j-th smallest member of a set of indices.
NthOf(keep, j) == CHOOSE i \in keep : Cardinality({x \in keep : x <= i}) = j

HandleNamed(taskName) ==
    \E i \in 1..Len(taskExecutions) :
        runs[taskExecutions[i].run].task.name = taskName

\* Entry i of taskExecutions is the first one, in the order of the Map,
\* whose execution belongs to a task of that name.
FirstHandleNamed(i, taskName) ==
    /\ i \in 1..Len(taskExecutions)
    /\ runs[taskExecutions[i].run].task.name = taskName
    /\ \A j \in 1..(i - 1) : runs[taskExecutions[j].run].task.name # taskName

\* C12: terminate(name) when no execution held in taskExecutions has that
\* task name returns false, rendered as a returned Outcome with isError =
\* true (nothing is raised); no terminate() is requested from any run and
\* taskExecutions and executionResults stay as they are.
C12_TerminateWithoutHandle ==
    [][\A c \in CallIds :
         (/\ calls[c].pc = "idle"
          /\ calls'[c].tool = "terminate_task"
          /\ calls'[c].taskName # NoName
          /\ ~HandleNamed(calls'[c].taskName))
         => /\ calls'[c].pc = "returned"
            /\ calls'[c].out.kind = "terminated"
            /\ ~calls'[c].out.success
            /\ calls'[c].out.isError
            /\ calls'[c].out.via = "return"
            /\ UNCHANGED <<runs, taskExecutions, executionResults>>]_vars

\* C12 witness: terminate of a name no run has was answered with the
\* failure while an execution of another name is held in taskExecutions.
C12_Witness ==
    \E c \in CallIds :
        /\ calls[c].tool = "terminate_task" /\ calls[c].pc = "returned"
        /\ calls[c].taskName # NoName
        /\ calls[c].out.kind = "terminated" /\ calls[c].out.isError
        /\ taskExecutions # <<>>
        /\ \A r \in 1..Len(runs) :
              runs[r].task.name # calls[c].taskName /\ runs[r].terminations = 0

C14_HandleHeldWhileActive ==
    /\ [](\A i \in 1..Len(taskExecutions) : ~runs[taskExecutions[i].run].ended)
    /\ [][\A c \in CallIds, i \in 1..Len(taskExecutions) :
            (/\ calls[c].pc = "idle"
             /\ calls'[c].tool = "terminate_task"
             /\ FirstHandleNamed(i, calls'[c].taskName))
            => ~MapHas(taskExecutions', taskExecutions[i].key)]_vars

\* C14 failing input: terminate has returned success for a run that has not
\* ended, and its execution is still held in taskExecutions.
C14_FailingInput ==
    \E c \in CallIds, i \in 1..Len(taskExecutions) :
        /\ calls[c].tool = "terminate_task" /\ calls[c].out.kind = "terminated"
        /\ calls[c].out.success
        /\ runs[taskExecutions[i].run].terminations > 0

\* The call has run into one of the failures: the registry rejected
\* fetchTasks or executeTask, a required taskName was missing, the name was
\* not found among the enumerated tasks, or an execute call ended without a
\* result (the timeout rejected it).
Failed(call) ==
    \/ call.registry # "ok"
    \/ (call.tool \in {"execute_task", "terminate_task", "get_task_details"}
          /\ call.taskName = NoName)
    \/ (call.tool \in {"execute_task", "get_task_details"}
          /\ ~NameListed(call.taskName))
    \/ (call.tool = "execute_task" /\ call.result = NoResult)

\* C15: none of the five tools raises past executeTool: every answered call
\* has an Outcome, and a call that ran into a failure (enumeration failure,
\* start failure, not found, timeout, missing argument) has an Outcome with
\* isError = true that carries the text of the failure.
C15_FailuresAreOutcomes ==
    \A c \in CallIds :
        calls[c].pc = "returned"
        => /\ calls[c].out.via \in {"return", "catch"}
           /\ calls[c].out.kind \in {"error", "notFound", "terminated", "executed",
                                      "details", "list", "running"}
           /\ Failed(calls[c])
                 => /\ calls[c].out.isError
                    /\ calls[c].out.kind \in {"error", "notFound", "terminated"}
                    /\ calls[c].out.kind = "error"
                          => (calls[c].out.tool = calls[c].tool
                                /\ "msg" \in DOMAIN calls[c].out.err)

\* C15 witness: an execute call that started a run has been rejected by the
\* 5 minute timer and answered with an error Outcome.
C15_Witness ==
    \E c \in CallIds :
        /\ calls[c].pc = "returned" /\ calls[c].run > 0
        /\ calls[c].registry = "ok"
        /\ TimedOut(calls[c])
        /\ calls[c].out.isError /\ calls[c].out.via = "catch"

\* C16: execute_task, terminate_task and get_task_details called without
\* taskName answer 'taskName is required' before anything else happens:
\* fetchTasks is not invoked, no run starts, no terminate() is requested and
\* taskExecutions and executionResults stay as they are.
C16_MissingNameRejectedFirst ==
    [][\A c \in CallIds :
         (/\ calls[c].pc = "idle"
          /\ calls'[c].tool \in {"execute_task", "terminate_task", "get_task_details"}
          /\ calls'[c].taskName = NoName)
         => /\ calls'[c].pc = "returned"
            /\ calls'[c].out = ToolError(calls'[c].tool, [msg |-> "taskName is required"])
            /\ ~calls'[c].fetched
            /\ UNCHANGED <<runs, taskExecutions, executionResults>>]_vars

\* C16 failing input: execute_task without taskName on the HTTP server has
\* enumerated the tasks and answers with the not-found error.
C16_FailingInput ==
    \E c \in CallIds :
        /\ calls[c].tool = "execute_task" /\ calls[c].taskName = NoName
        /\ calls[c].fetched
        /\ calls[c].out.kind = "error"
        /\ calls[c].out.err.msg = "Failed to execute task"

\* C17: get_running_tasks lists one descriptor for every execution the
\* registry holds at that moment, in the registry's order, whether or not
\* the tracker has seen its start event; with no execution the Outcome is
\* the empty list and no error.
C17_RunningListsRegistry ==
    [][\A c \in CallIds :
         (calls[c].pc = "idle" /\ calls'[c].tool = "get_running_tasks")
         => LET active == {r \in 1..Len(runs) : IsExecuting(runs[r])}
                out    == calls'[c].out
            IN  /\ calls'[c].pc = "returned"
                /\ out.kind = "running"
                /\ ~out.isError
                /\ out.count = Cardinality(active)
                /\ Len(out.items) = Cardinality(active)
                /\ \A j \in 1..Cardinality(active) :
                       /\ out.items[j].name = runs[NthOf(active, j)].task.name
                       /\ out.items[j].source = runs[NthOf(active, j)].task.source
                /\ active = {} =>
                       (out.items = <<>> /\ out.text = "No tasks are currently running.")
                /\ UNCHANGED <<runs, taskExecutions, executionResults>>]_vars

\* C17 witness: the list names a run that was executing before the tracker
\* listened: the only run is started and not ended, taskExecutions is empty.
C17_Witness ==
    \E c \in CallIds :
        /\ calls[c].tool = "get_running_tasks" /\ calls[c].pc = "returned"
        /\ calls[c].out.count = 1
        /\ Len(runs) = 1
        /\ runs[1].call = 0 /\ runs[1].started /\ ~runs[1].ended
        /\ calls[c].out.items[1].name = runs[1].task.name
        /\ taskExecutions = <<>>

\* The end event of run r is handled in this step.
EndHandled(r) == r \in 1..Len(runs) /\ ~runs[r].ended /\ runs'[r].ended

\* C18: executionResults holds one result per key: when the end event of a
\* run is handled for a key whose result is still buffered, the result of
\* that run takes the place of the buffered one and the number of buffered
\* results stays the same.
C18_SecondEndReplaces ==
    [][\A r \in 1..MaxRuns :
         (EndHandled(r) /\ getTaskId(runs[r].task) \in DOMAIN executionResults)
         => LET k == getTaskId(runs[r].task)
            IN  /\ DOMAIN executionResults' = DOMAIN executionResults
                /\ Cardinality(DOMAIN executionResults') =
                      Cardinality(DOMAIN executionResults)
                /\ executionResults'[k].run = r
                /\ executionResults'[k].run # executionResults[k].run
                /\ executionResults'[k].success
                /\ executionResults'[k].exitCode = Undefined]_vars

\* C18 witness: two runs of one key have ended, no call was made (so no
\* result was ever taken), and the key holds the result of the later one.
C18_Witness ==
    \E r1 \in 1..Len(runs), r2 \in 1..Len(runs) :
        /\ r1 # r2
        /\ runs[r1].ended /\ runs[r2].ended
        /\ getTaskId(runs[r1].task) = getTaskId(runs[r2].task)
        /\ \A c \in CallIds : calls[c].pc = "idle"
        /\ getTaskId(runs[r1].task) \in DOMAIN executionResults
        /\ Cardinality(DOMAIN executionResults) = 1

\* C19: a poll that finds no buffered result for its key and the key not in
\* taskExecutions resolves the promise with the synthesized result (the
\* name asked for, success = true, no exit code), which a call that is still
\* waiting returns as a SUCCESS Outcome; the poll leaves executionResults
\* and taskExecutions as they are and is the last poll of the call.
C19_FallbackIsSuccess ==
    [][\A c \in CallIds :
         (/\ CheckCompletion(c)
          /\ calls[c].taskId \notin DOMAIN executionResults
          /\ ~MapHas(taskExecutions, calls[c].taskId))
         => /\ UNCHANGED <<executionResults, taskExecutions>>
            /\ ~calls'[c].pollTimer
            /\ calls[c].pc = "waiting"
                  => /\ calls'[c].pc = "returned"
                     /\ calls'[c].result.taskName = calls[c].taskName
                     /\ calls'[c].result.success
                     /\ calls'[c].result.exitCode = Undefined
                     /\ calls'[c].result.run = 0
                     /\ calls'[c].out.kind = "executed"
                     /\ calls'[c].out.status = "SUCCESS"
                     /\ calls'[c].out.exitCodeText = <<>>
                     /\ ~calls'[c].out.isError]_vars

\* C19 witness: the run a call started has ended and another call has taken
\* its result; the call itself was answered with the synthesized success.
C19_Witness ==
    \E c \in CallIds :
        /\ calls[c].pc = "returned" /\ calls[c].run > 0
        /\ runs[calls[c].run].ended
        /\ calls[c].result.run = 0 /\ calls[c].result.success
        /\ calls[c].out.kind = "executed" /\ calls[c].out.status = "SUCCESS"
        /\ \E d \in CallIds : d # c /\ calls[d].result.run = calls[c].run

\* C20: handling the end event of a run stores, under the key of the run, a
\* provisional result with success = true and no exit code and removes the
\* key from taskExecutions in the same step; the results and the executions
\* of other keys are untouched; in no state is the result of a run buffered
\* while the execution of that run is still held.
C20_EndStoresAndRemoves ==
    /\ [][\A r \in 1..MaxRuns :
            EndHandled(r)
            => LET k == getTaskId(runs[r].task)
               IN  /\ k \in DOMAIN executionResults'
                   /\ executionResults'[k].taskName = runs[r].task.name
                   /\ executionResults'[k].success
                   /\ executionResults'[k].exitCode = Undefined
                   /\ ~MapHas(taskExecutions', k)
                   /\ DOMAIN executionResults' = DOMAIN executionResults \cup {k}
                   /\ \A j \in DOMAIN executionResults \ {k} :
                          executionResults'[j] = executionResults[j]
                   /\ taskExecutions' = SelectSeq(taskExecutions, LAMBDA e : e.key # k)]_vars
    /\ [](\A k \in DOMAIN executionResults, i \in 1..Len(taskExecutions) :
            taskExecutions[i].key = k
            => taskExecutions[i].run # executionResults[k].run)

\* C20 witness: the end event of one run has buffered its provisional
\* result and removed its key while the execution and the buffered result
\* of another key are still there.
C20_Witness ==
    \E k \in DOMAIN executionResults, j \in DOMAIN executionResults :
        /\ k # j
        /\ executionResults[k].success /\ executionResults[k].exitCode = Undefined
        /\ executionResults[k].run > 0
        /\ ~MapHas(taskExecutions, k)
        /\ executionResults[j].exitCode = 1

\* The process-exit event of run r is handled in this step.
ExitHandled(r) == r \in 1..Len(runs) /\ ~runs[r].exited /\ runs'[r].exited

\* C21: a process-exit event for a key without buffered result (it comes
\* before the end event, or after a poll took the result) changes neither
\* executionResults nor taskExecutions, and its exit code is not kept: the
\* end event of a run that has exited already buffers the provisional
\* result, success = true and no exit code.
C21_ExitWithoutResultDropped ==
    /\ [][\A r \in 1..MaxRuns :
            (ExitHandled(r) /\ getTaskId(runs[r].task) \notin DOMAIN executionResults)
            => UNCHANGED <<executionResults, taskExecutions>>]_vars
    /\ [][\A r \in 1..MaxRuns :
            (EndHandled(r) /\ runs[r].exited)
            => LET k == getTaskId(runs[r].task)
               IN  /\ executionResults'[k].run = r
                   /\ executionResults'[k].success
                   /\ executionResults'[k].exitCode = Undefined]_vars

\* C21 witness: a run exited with code 1 before it ended; the result its
\* end event buffered is still a success without exit code.
C21_Witness ==
    \E r \in 1..Len(runs) :
        /\ runs[r].exited /\ runs[r].ended
        /\ Len(runs) = 1
        /\ getTaskId(runs[r].task) \in DOMAIN executionResults
        /\ executionResults[getTaskId(runs[r].task)].run = r
        /\ executionResults[getTaskId(runs[r].task)].success
        /\ executionResults[getTaskId(runs[r].task)].exitCode = Undefined

\* C22: an end event for a key that is not in taskExecutions is orphaned:
\* it buffers no result, so executionResults stays as it is and a later
\* call on that key is not handed a result of that event.
C22_OrphanedEndBuffersNothing ==
    [][\A r \in 1..MaxRuns :
         (EndHandled(r) /\ ~MapHas(taskExecutions, getTaskId(runs[r].task)))
         => UNCHANGED executionResults]_vars

\* C22 failing input: a run the tracker never saw start has ended, and an
\* execute call made afterwards was answered with the result of that end
\* event.
C22_FailingInput ==
    \E c \in CallIds :
        /\ calls[c].pc = "returned" /\ calls[c].run > 0
        /\ calls[c].result.run > 0
        /\ calls[c].result.run # calls[c].run
        /\ runs[calls[c].result.run] = [PriorRun EXCEPT !.ended = TRUE]

\* C24: execute calls for one task name are not serialized: every call
\* that finds its task asks the registry for a run of its own in the step of
\* the call, whether or not an earlier call for that name is still waiting,
\* so the calls that found their task own as many runs as they are.
C24_EveryCallStartsItsOwnRun ==
    /\ [][\A c \in CallIds :
            (/\ calls[c].pc = "idle"
             /\ calls'[c].tool = "execute_task"
             /\ calls'[c].registry = "ok"
             /\ NameListed(calls'[c].taskName))
            => /\ Len(runs') = Len(runs) + 1
               /\ calls'[c].run = Len(runs')
               /\ runs'[Len(runs')].call = c
               /\ runs'[Len(runs')].task.name = calls'[c].taskName
               /\ ~runs'[Len(runs')].started]_vars
    /\ [](\A c \in CallIds, d \in CallIds :
            (c # d /\ calls[c].run > 0 /\ calls[d].run > 0)
            => calls[c].run # calls[d].run)
    /\ [](Cardinality({r \in 1..Len(runs) : runs[r].call # 0}) =
           Cardinality({c \in CallIds : calls[c].tool = "execute_task"
                                          /\ calls[c].registry = "ok"
                                          /\ NameListed(calls[c].taskName)}))

\* C24 witness: two calls for the same name are waiting at the same time,
\* each for a run of its own, and neither run has ended.
C24_Witness ==
    \E c \in CallIds, d \in CallIds :
        /\ c # d
        /\ calls[c].pc = "waiting" /\ calls[d].pc = "waiting"
        /\ calls[c].taskName = calls[d].taskName
        /\ calls[c].run # calls[d].run
        /\ ~runs[calls[c].run].ended /\ ~runs[calls[d].run].ended

\* The step is the handling of the start event of run r.
StartHandled(r) == r \in 1..Len(runs) /\ ~runs[r].started /\ runs'[r].started

\* The step is a poll of call c that finds a buffered result for its key.
PollConsumes(c) ==
    /\ calls[c].pollTimer /\ ~calls'[c].pollTimer
    /\ calls[c].taskId \in DOMAIN executionResults

\* C23 as stated: taskExecutions and executionResults change only in a step
\* that handles a start, end or process-exit event; the polls of
\* executeTask and every facade operation leave both maps as they are.
C23_OnlyEventHandlersWrite ==
    [][(taskExecutions' # taskExecutions \/ executionResults' # executionResults)
         => \E r \in 1..Len(runs) :
              StartHandled(r) \/ EndHandled(r) \/ ExitHandled(r)]_vars

\* C23 amended: taskExecutions changes only in a step that handles a start
\* or end event; executionResults changes only in a step that handles an end
\* or process-exit event, or in a poll of executeTask that finds a result
\* for the key of its call, which removes exactly that entry; the
\* invocation of a facade operation and the timeout timer change neither.
C23_HandlersWriteAndPollConsumes ==
    /\ [][taskExecutions' # taskExecutions
            => \E r \in 1..Len(runs) : StartHandled(r) \/ EndHandled(r)]_vars
    /\ [][executionResults' # executionResults
            => \/ \E r \in 1..Len(runs) : EndHandled(r) \/ ExitHandled(r)
               \/ \E c \in CallIds : PollConsumes(c)]_vars
    /\ [][\A c \in CallIds :
            PollConsumes(c)
              => /\ DOMAIN executionResults' = DOMAIN executionResults \ {calls[c].taskId}
                 /\ \A k \in DOMAIN executionResults' :
                       executionResults'[k] = executionResults[k]]_vars
    /\ [][\A c \in CallIds :
            (calls[c].pc = "idle" /\ calls'[c].pc # "idle")
              => UNCHANGED <<taskExecutions, executionResults>>]_vars

\* A poll has consumed the result of one key while the result of another
\* key stays buffered.
C23_Witness ==
    \E c \in CallIds :
      /\ calls[c].pc = "returned"
      /\ calls[c].result.run > 0
      /\ calls[c].taskId \notin DOMAIN executionResults
      /\ DOMAIN executionResults # {}

\* The execute call has returned without a result: it was refused, the
\* registry rejected fetchTasks or executeTask, or its promise was rejected
\* by the timeout timer.
ExecuteFailed(call) == call.result = NoResult

\* The reason an execute call without a result reports.
FailureReason(call) ==
    IF call.taskName = NoName /\ ~call.fetched THEN <<"taskName is required">>
    ELSE IF call.registry = "fetchFails" THEN <<"Failed to execute task", "fetchTasks rejected">>
    ELSE IF call.registry = "startFails" THEN <<"Failed to execute task", "executeTask rejected">>
    ELSE IF call.run = 0 THEN <<"Failed to execute task", "not found">>
    ELSE <<"timed out after 5 minutes">>

\* The reason the Outcome of the call carries.
ReportedReason(out) ==
    IF "cause" \in DOMAIN out.err THEN <<out.err.msg, out.err.cause.msg>>
    ELSE <<out.err.msg>>

\* C26: the Outcome of a returned execute call has isError = TRUE exactly
\* when the call failed (no task name, task not found, registry failure,
\* timeout) or the result it consumed has success = FALSE.  A failed call
\* reports its own reason and no status; a call with a result reports
\* SUCCESS or FAILED and the exit code the result carries, so an exit with
\* a non-zero code differs from a timeout and from a start failure; a
\* result that is still the provisional one (no exit code patched in) is
\* reported as SUCCESS without the error flag.
C26_ErrorFlagAndReason ==
    \A c \in CallIds :
      (calls[c].pc = "returned" /\ calls[c].tool = "execute_task")
        => LET call == calls[c]
               out  == call.out
           IN  /\ out.isError <=> (ExecuteFailed(call) \/ ~call.result.success)
               /\ ExecuteFailed(call)
                     => /\ out.kind = "error"
                        /\ "status" \notin DOMAIN out
                        /\ ReportedReason(out) = FailureReason(call)
               /\ ~ExecuteFailed(call)
                     => /\ out.kind = "executed"
                        /\ out.status = (IF call.result.success THEN "SUCCESS" ELSE "FAILED")
                        /\ out.exitCodeText =
                              (IF call.result.exitCode \in ExitCodes
                               THEN <<call.result.exitCode>> ELSE <<>>)
               /\ (call.result.success /\ call.result.exitCode = Undefined)
                     => out.status = "SUCCESS" /\ ~out.isError

\* A call is answered FAILED with exit code 1: the exit event of its run was
\* handled after the end event, before the poll.
C26_Witness ==
    \E c \in CallIds :
      /\ calls[c].pc = "returned" /\ calls[c].tool = "execute_task"
      /\ calls[c].result.run > 0
      /\ calls[c].result.exitCode = 1
      /\ calls[c].out.isError
      /\ calls[c].out.status = "FAILED"

\* C27: a request with one of the five names runs the facade method of that
\* name and no other (the method run is the one recorded in the call);
\* with any other name, or none, no method of the facade runs, the registry
\* is neither asked for its tasks nor for a run, tracker and runs stay as
\* they are, and the call is answered by an Outcome with isError = TRUE
\* that names the tool requested.
C27_DispatchByName ==
    [][\A c \in ToolCallIds, n \in RequestedNames, a \in ToolArgs :
         (ExecuteTool(c, n, a[1], a[2]) \/ ServerExecuteTool(c, n, a[1], a[2]))
           => IF n \in ToolNames
              THEN calls'[c].tool = n
              ELSE /\ calls'[c].tool = "none"
                   /\ calls'[c].pc = "returned"
                   /\ ~calls'[c].fetched
                   /\ calls'[c].run = 0
                   /\ calls'[c].out.isError
                   /\ calls'[c].out.via = "catch"
                   /\ calls'[c].out.tool = n
                   /\ UNCHANGED <<tasks, runs, taskExecutions, executionResults>>]_vars

\* A request for a tool no case label names has been answered.
C27_Witness ==
    \E c \in CallIds :
      /\ calls[c].pc = "returned"
      /\ calls[c].tool = "none"
      /\ calls[c].out.isError
      /\ calls[c].out.tool = "run_task"

\* C25: after any number of log calls the history holds at most maxLogs
\* entries, namely the entries of the latest calls in the order of the
\* calls: all of them while fewer than maxLogs calls were made, the latest
\* maxLogs afterwards (each further call evicts the oldest entry).
C25_HistoryIsLatestEntries ==
    /\ Len(logs) <= maxLogs
    /\ Len(logs) = (IF logCalls < maxLogs THEN logCalls ELSE maxLogs)
    /\ \A i \in 1..Len(logs) : logs[i] = logCalls - Len(logs) + i

\* More calls than the history holds were made: the oldest entries are gone.
C25_Witness ==
    /\ logCalls > maxLogs
    /\ Len(logs) = maxLogs
    /\ logs[1] = logCalls - maxLogs + 1
    /\ logs[maxLogs] = logCalls

\* C28: a start() on an MCPServer that is running is rejected with 'MCP
\* Server is already running' and changes neither a server nor an http
\* server; a stop() on an MCPServer that is not running returns at once and
\* changes nothing; the same holds for start() and stop() of the WebSocket
\* server, which is running while this.server is set; the start command
\* issued while the extension's MCPServer reports running ends with the
\* warning, constructs no MCPServer and calls no start().
C28_RepeatedStartAndStop ==
    /\ [][\A k \in (Len(serverCalls) + 1)..Len(serverCalls') :
            LET call == serverCalls'[k]
            IN  /\ (/\ call.op = "start"
                    /\ call.server \in 1..Len(servers)
                    /\ servers[call.server].isRunning)
                      => /\ call.pc = "rejected"
                         /\ call.error = "MCP Server is already running"
                         /\ UNCHANGED <<servers, listeners, mcpServer>>
                /\ (/\ call.op = "stop"
                    /\ ~servers[call.server].isRunning)
                      => /\ call.pc = "resolved"
                         /\ UNCHANGED <<servers, listeners, mcpServer>>]_vars
    /\ [][\A k \in (Len(wsCalls) + 1)..Len(wsCalls') :
            LET call == wsCalls'[k]
            IN  /\ (call.op = "start" /\ wsServer # "undefined")
                      => /\ call.pc = "rejected"
                         /\ call.error = "MCP Server is already running"
                         /\ UNCHANGED <<wsServer, clients, sockets>>
                /\ (call.op = "stop" /\ wsServer = "undefined")
                      => /\ call.pc = "resolved"
                         /\ UNCHANGED <<wsServer, clients, sockets>>]_vars
    /\ [][\A c \in (Len(commands) + 1)..Len(commands') :
            (/\ commands'[c].kind = "start"
             /\ mcpServer # 0
             /\ servers[mcpServer].isRunning)
               => /\ commands'[c].started = "warned"
                  /\ commands'[c].phase = "done"
                  /\ commands'[c].server = 0
                  /\ UNCHANGED <<servers, listeners, serverCalls, mcpServer>>]_vars

\* A start() has been rejected on a running MCPServer and a start command
\* has ended with the warning.
C28_Witness ==
    /\ \E k \in 1..Len(serverCalls) :
         serverCalls[k].op = "start" /\ serverCalls[k].pc = "rejected"
           /\ serverCalls[k].error = "MCP Server is already running"
    /\ \E c \in 1..Len(commands) :
         commands[c].kind = "start" /\ commands[c].started = "warned"

\* C29: when a stop() of a running MCPServer completes, that server reports
\* not running; when the close callback of the WebSocket server has run,
\* this.server is unset and this.clients is empty; a start() on a server
\* that reports not running is not rejected as already running; and when
\* the start part of a restart command succeeds, the extension's MCPServer
\* reports running.
C29_StoppedThenRestartable ==
    /\ [][\A k \in 1..Len(serverCalls) :
            (/\ serverCalls[k].op = "stop"
             /\ serverCalls[k].pc = "await"
             /\ serverCalls'[k].pc = "resolved")
               => ~servers'[serverCalls[k].server].isRunning]_vars
    /\ [][(wsServer = "closing" /\ wsServer' # "closing")
            => wsServer' = "undefined" /\ clients' = {}]_vars
    /\ [][\A k \in (Len(serverCalls) + 1)..Len(serverCalls') :
            (/\ serverCalls'[k].op = "start"
             /\ serverCalls'[k].server \in 1..Len(servers)
             /\ ~servers[serverCalls'[k].server].isRunning)
               => serverCalls'[k].pc = "await"]_vars
    /\ [][\A k \in (Len(wsCalls) + 1)..Len(wsCalls') :
            (wsCalls'[k].op = "start" /\ wsServer = "undefined")
               => wsCalls'[k].pc = "resolved"]_vars
    /\ [][\A c \in 1..Len(commands) :
            (/\ commands[c].kind = "restart"
             /\ commands[c].started = "none"
             /\ commands'[c].started = "started")
               => mcpServer' # 0 /\ servers'[mcpServer'].isRunning]_vars

\* The start part of a restart command has succeeded, the MCPServer it
\* constructed is running and holds the port, and the extension's variable
\* refers to another MCPServer, which is not running.
C29_FailingInput ==
    \E c \in 1..Len(commands) :
      /\ commands[c].kind = "restart"
      /\ commands[c].started = "started"
      /\ servers[commands[c].server].isRunning
      /\ mcpServer # commands[c].server
      /\ ~servers[mcpServer].isRunning

\* The replies sent in answer to message m.
RepliesTo(m) == { j \in 1..Len(replies) : replies[j].re = m }

\* C30: a message with an id, handled while its socket is open, has exactly
\* one reply, sent to that socket, a result or an error, with the id of the
\* message; for a method the server does not know and for a tools/call
\* without params.name the reply is an error with code -32603.  A message
\* without an id has no reply.
C30_OneReplyWithRequestId ==
    \A m \in 1..Len(messages) :
      LET msg == messages[m]
      IN  /\ (msg.parsed /\ msg.id # NoId /\ msg.pc = "done" /\ msg.wasOpen)
                => /\ Cardinality(RepliesTo(m)) = 1
                   /\ \A j \in RepliesTo(m) :
                        /\ replies[j].to = msg.socket
                        /\ replies[j].id = msg.id
                        /\ replies[j].kind \in {"result", "error"}
                        /\ (\/ msg.method \notin {"initialize", "tools/list",
                                                  "tools/call", "ping"}
                            \/ (msg.method = "tools/call" /\ ~msg.named))
                              => replies[j].kind = "error" /\ replies[j].code = -32603
          /\ (msg.parsed /\ msg.id = NoId) => RepliesTo(m) = {}

\* The request { id: "", method: "nope" } arrived on an open socket and was
\* answered by an error that carries the id 0.
C30_FailingInput ==
    \E m \in 1..Len(messages) :
      /\ messages[m].id = "\"\""
      /\ messages[m].method = "nope"
      /\ messages[m].wasOpen
      /\ \E j \in RepliesTo(m) : replies[j].kind = "error" /\ replies[j].id = "0"

\* C31: a message that is no JSON (on a socket that is open, or as the body
\* of a POST) is answered by exactly one error with code -32700; handling
\* it awaits no tool, touches neither tracker nor registry, and leaves
\* server, client set and sockets as they are; a later request of the same
\* client is answered as usual.
C31_ParseErrorAnswered ==
    /\ [][\A m \in (Len(messages) + 1)..Len(messages') :
            (~messages'[m].parsed /\ messages'[m].wasOpen)
              => /\ messages'[m].pc = "done"
                 /\ Len(replies') = Len(replies) + 1
                 /\ replies'[Len(replies')].re = m
                 /\ replies'[Len(replies')].to = messages'[m].socket
                 /\ replies'[Len(replies')].kind = "error"
                 /\ replies'[Len(replies')].code = -32700
                 /\ UNCHANGED <<trackerVars, serverVars>>
                 /\ UNCHANGED <<wsServer, clients, sockets>>]_vars
    /\ [](\A m1, m2 \in 1..Len(messages) :
            (/\ m1 < m2
             /\ ~messages[m1].parsed
             /\ messages[m2].socket = messages[m1].socket
             /\ messages[m2].parsed /\ messages[m2].id # NoId
             /\ messages[m2].pc = "done" /\ messages[m2].wasOpen)
              => Cardinality(RepliesTo(m2)) = 1)

\* A parse error has been answered and a later ping of the same socket has
\* got its result.
C31_Witness ==
    \E m1, m2 \in 1..Len(messages) :
      /\ m1 < m2
      /\ ~messages[m1].parsed /\ messages[m1].wasOpen
      /\ \E j \in RepliesTo(m1) : replies[j].code = -32700
      /\ messages[m2].socket = messages[m1].socket
      /\ messages[m2].method = "ping"
      /\ \E j \in RepliesTo(m2) : replies[j].kind = "result"

\* C32: the result a call returns is never the one that was buffered under
\* its key already when the call asked the registry for its run: a result
\* an end event had left there before the call was made.
C32_NoStaleResultReturned ==
    \A c \in CallIds :
        (calls[c].pc = "returned" /\ calls[c].result.run > 0)
        => calls[c].result.run # calls[c].stale

\* C32 failing input: a run started by the user has ended and nobody waited
\* for it; a call made afterwards on the same key has returned that run's
\* result, while the run the call started has not even begun.
C32_FailingInput ==
    \E c \in CallIds :
        /\ calls[c].pc = "returned" /\ calls[c].run > 0
        /\ calls[c].stale > 0
        /\ calls[c].result.run = calls[c].stale
        /\ runs[calls[c].stale].call = 0
        /\ ~runs[calls[c].run].started

\* C33: a call returns a result only when the run it started has ended: in
\* the step in which a waiting call returns with a result (not with the
\* timeout error), the end event of its own run has been handled.
C33_ReturnsAfterOwnRunEnded ==
    [][\A c \in CallIds :
         (/\ calls[c].pc = "waiting"
          /\ calls'[c].pc = "returned"
          /\ calls'[c].result # NoResult)
         => runs[calls[c].run].ended]_vars

\* C33 failing input: the first poll of a call fired before the start event
\* of its run was handled; the call has returned the synthesized success
\* and its run has not begun.
C33_FailingInput ==
    \E c \in CallIds :
        /\ calls[c].pc = "returned" /\ calls[c].run > 0
        /\ calls[c].result = FallbackResult(calls[c].taskName)
        /\ ~runs[calls[c].run].started
        /\ Len(runs) = 1

\* C34: in every state a key is in taskExecutions exactly when some run with
\* that key has had its start event handled and not yet its end event.
C34_ActiveIffStartedNotEnded ==
    \A t \in 1..Len(tasks) :
        MapHas(taskExecutions, getTaskId(tasks[t]))
        <=> \E r \in 1..Len(runs) :
               /\ getTaskId(runs[r].task) = getTaskId(tasks[t])
               /\ runs[r].started /\ ~runs[r].ended

\* C34 failing input: two runs of one task overlap; the end event of one of
\* them has removed the key while the other is still running.
C34_FailingInput ==
    \E r \in 1..Len(runs), q \in 1..Len(runs) :
        /\ r # q
        /\ getTaskId(runs[r].task) = getTaskId(runs[q].task)
        /\ runs[r].started /\ ~runs[r].ended
        /\ runs[q].started /\ runs[q].ended
        /\ ~MapHas(taskExecutions, getTaskId(runs[r].task))

\* C35: with the timers scheduled fairly, every call that waits for the
\* completion of the run it started returns in the end, with a result or
\* with the timeout error.
C35_EveryCallReturns ==
    \A c \in CallIds : (calls[c].pc = "waiting") ~> (calls[c].pc = "returned")

\* C35 failing input: the timeout timer of a waiting call has fired without
\* rejecting (the key was not in taskExecutions at that moment), no result
\* is buffered under the key, and another run holds the key since: every
\* further poll of the call arms the next one.
C35_FailingInput ==
    \E c \in CallIds :
        /\ calls[c].pc = "waiting"
        /\ calls[c].pollTimer /\ ~calls[c].timeoutTimer
        /\ calls[c].taskId \notin DOMAIN executionResults
        /\ MapHas(taskExecutions, calls[c].taskId)
        /\ runs[calls[c].run].ended

\* C36: once the process-exit event of the run a call started has been
\* handled, with exit code e, a result the call has returned carries
\* exitCode = e and success = (e = 0), in whatever order the exit event, the
\* end event and the polls of the call came.
C36_ReturnedResultHasExitCode ==
    \A c \in CallIds :
        (/\ calls[c].pc = "returned"
         /\ calls[c].run > 0
         /\ calls[c].result # NoResult
         /\ runs[calls[c].run].exited)
        => /\ calls[c].result.exitCode = runs[calls[c].run].exitCode
           /\ calls[c].result.success = (runs[calls[c].run].exitCode = 0)

\* C36 failing input: the only run there is exited with code 1 before its
\* end event was handled; the call that started it has returned the result
\* of that end event, a success without exit code.
C36_FailingInput ==
    \E c \in CallIds :
        /\ calls[c].pc = "returned" /\ calls[c].run > 0
        /\ Len(runs) = 1
        /\ runs[calls[c].run].exited /\ runs[calls[c].run].exitCode = 1
        /\ calls[c].result.run = calls[c].run
        /\ calls[c].result.success
        /\ calls[c].result.exitCode = Undefined

\* C37: a call that has returned has no further effect: a step of its poll
\* loop or of its timeout timer (the only steps that still change its
\* record) leaves executionResults, taskExecutions and the runs as they are.
C37_ReturnedCallIsInert ==
    [][\A c \in CallIds :
         (calls[c].pc = "returned" /\ calls'[c] # calls[c])
         => UNCHANGED <<executionResults, taskExecutions, runs>>]_vars

\* C37 failing input: call c failed with the timeout; a later call d on the
\* same key is waiting, the run d started has ended, and the result of its
\* end event is gone: the poll loop of c, still running, has taken it.
C37_FailingInput ==
    \E c \in CallIds, d \in CallIds :
        /\ c # d
        /\ TimedOut(calls[c]) /\ ~calls[c].pollTimer
        /\ calls[d].pc = "waiting" /\ calls[d].taskId = calls[c].taskId
        /\ runs[calls[d].run].ended
        /\ calls[d].taskId \notin DOMAIN executionResults

\* C38: while only the commands act on the servers (no other caller of
\* start() or stop()), at most one http server listens, and the MCPServer
\* that owns a listening http server is the one the extension's variable
\* mcpServer refers to, so that the stop command reaches it.
C38_OneServerHeldByExtension ==
    (DirectCalls = {})
    => /\ Cardinality({l \in 1..Len(listeners) : listeners[l].state = "listening"}) <= 1
       /\ \A l \in 1..Len(listeners) :
             listeners[l].state = "listening" => listeners[l].server = mcpServer

\* C38 failing input: two start commands overlapped (the auto-start of the
\* activation and the command, say); the first MCPServer listens, the
\* second failed on the port, and mcpServer refers to the second: the stop
\* command answers 'not running' while the first keeps the port.
C38_FailingInput ==
    \E c \in 1..Len(commands), d \in 1..Len(commands) :
      /\ DirectCalls = {}
      /\ commands[c].kind = "start" /\ commands[d].kind = "start"
      /\ commands[c].started = "started" /\ commands[d].started = "failed"
      /\ mcpServer = commands[d].server
      /\ ~servers[mcpServer].isRunning
      /\ servers[commands[c].server].isRunning
      /\ listeners[servers[commands[c].server].httpServer].state = "listening"

\* The registry lists an execution of a task with this name.
ListedRunning(taskName) ==
    \E i \in 1..Len(getRunningTasks(runs)) : getRunningTasks(runs)[i].name = taskName

\* C39: terminate(name) for a name that listRunning reports at that moment
\* (the registry lists an execution of a task with that name) returns
\* success and requests terminate() of a run with that name.
C39_TerminateFindsListedRun ==
    [][\A c \in CallIds :
         (/\ calls[c].pc = "idle"
          /\ calls'[c].tool = "terminate_task"
          /\ calls'[c].taskName # NoName
          /\ ListedRunning(calls'[c].taskName))
         => /\ calls'[c].out.kind = "terminated"
            /\ calls'[c].out.success
            /\ \E r \in 1..Len(runs) :
                  /\ runs[r].task.name = calls'[c].taskName
                  /\ runs'[r].terminations = runs[r].terminations + 1]_vars

\* C39 failing input: the task build was running when the extension was
\* activated and still is; it is the only run; terminate_task('build') has
\* been answered with the failure.
C39_FailingInput ==
    \E c \in CallIds :
        /\ calls[c].tool = "terminate_task" /\ calls[c].pc = "returned"
        /\ calls[c].taskName = "build"
        /\ calls[c].out.kind = "terminated" /\ ~calls[c].out.success
        /\ runs = <<PriorRun>>

====
